---- MODULE Spec2Model ----
(***************************************************************************)
(* Model of dlt-meta's DataflowSpecUtils (src/src/dataflow_spec.py) and of *)
(* its integration-test orchestrator                                       *)
(* (src/integration_tests/run_integration_tests.py).                       *)
(*                                                                         *)
(* Each operation of DataflowSpecUtils is a Python static method that      *)
(* reads the run-time configuration (spark.conf), a metadata table and/or  *)
(* a serialized payload and either returns a value or raises.  The state   *)
(* of the model is the configuration, the metadata table, the arguments    *)
(* of the call in progress, its outcome and the log of secret-store        *)
(* queries.  A raised exception is an outcome                              *)
(*   [status |-> "error", kind |-> ..., names |-> ...]                     *)
(* where names is the set of keys / attributes the message text spells     *)
(* out; a returned value is [status |-> "ok", value |-> ...].              *)
(*                                                                         *)
(* The orchestrator is a process per test run: it builds a runner_conf,    *)
(* creates schemas and a volume in the workspace, writes onboarding files  *)
(* into its working directory and uploads them.  Its state is the          *)
(* position and runner_conf of each process, the resources of the          *)
(* workspace and the generated local files.  Its methods are also studied  *)
(* one call at a time, like those of DataflowSpecUtils.                    *)
(***************************************************************************)
EXTENDS Integers, Sequences, FiniteSets, TLC

VARIABLES
    op,          \* the operation under study: "none" before a call
    pc,          \* "call" before the operation ran, "done" after
    conf,        \* spark.conf: a partial map key -> string value
    table,       \* rows of the dataflow spec metadata table
    args,        \* arguments of the call
    result,      \* outcome of the call
    secretCalls, \* sequence of <<scope, key>> asked of the secret store
    runner,      \* per orchestrator process: position, directory, runner_conf
    platform,    \* what exists in the workspace: records [kind, name, ...]
    localFiles,  \* generated files of the local directories: path -> content
    written      \* what each process created or wrote: [by, kind, name]

vars == <<op, pc, conf, table, args, result, secretCalls,
          runner, platform, localFiles, written>>

\* The variables of the orchestrator, which DataflowSpecUtils leaves alone.
orchestratorVars == <<runner, platform, localFiles, written>>

\* No orchestrator process, an empty workspace and no generated file.
NoOrchestrator ==
    /\ runner = << >>
    /\ platform = {}
    /\ localFiles = << >>
    /\ written = {}

\* Python's None, as an argument or as the default of spark.conf.get.
None == "<None>"

NoArgs == [none |-> TRUE]
NoResult == [status |-> "none"]

Ok(v) == [status |-> "ok", value |-> v]
Raise(k, n) == [status |-> "error", kind |-> k, names |-> n]

\* bool(v) of a value that is None or a string.
Truthy(v) == v # None /\ v # ""

-----------------------------------------------------------------------------
(* spark.conf                                                              *)

Layers == {"bronze", "silver"}

TableKey(layer) == layer \o ".dataflowspecTable"
GroupKey(layer) == layer \o ".group"
IdsKey(layer) == layer \o ".dataflowIds"

\* spark.conf.get(key, None)
ConfGet(c, key) == IF key \in DOMAIN c THEN c[key] ELSE None

SpecTableName == "db.dataflowspec"
Groups == {"A1", "A2"}
Ids == {"100", "101"}

\* Values of <layer>.dataflowIds: the text of a SQL IN list.
IdLists == {"'100'", "'100','101'"}

\* The dataFlowId values that satisfy  dataFlowId in (<ids>).
IdsIn(ids) ==
    CASE ids = "'100'" -> {"100"}
      [] ids = "'100','101'" -> {"100", "101"}
      [] OTHER -> {}

\* The part of a configuration that belongs to one layer.
LayerConfs(layer) ==
    { [k \in D |-> CASE k = TableKey(layer) -> SpecTableName
                     [] k = GroupKey(layer) -> g
                     [] k = IdsKey(layer) -> i] :
        D \in SUBSET {TableKey(layer), GroupKey(layer), IdsKey(layer)},
        g \in Groups \cup {""}, i \in IdLists }

LayerSettings == { [k \in D |-> l] : D \in SUBSET {"layer"}, l \in Layers }

\* Union of partial maps with disjoint domains.
Merge(f, g) == [k \in DOMAIN f \cup DOMAIN g |-> IF k \in DOMAIN f THEN f[k] ELSE g[k]]

-----------------------------------------------------------------------------
(* check_spark_dataflowpipeline_conf_params                                *)

CheckConfWrongLayer(c, layer_arg) ==
    LET layer == ConfGet(c, "layer") IN
    IF layer = None
    THEN Raise("layer_missing", {layer_arg})
    ELSE IF ConfGet(c, TableKey(layer_arg)) = None
    THEN Raise("table_missing", {TableKey(layer_arg)})
    ELSE IF ConfGet(c, GroupKey(layer)) = None /\ ConfGet(c, IdsKey(layer)) = None
    THEN Raise("group_and_ids_missing", {GroupKey(layer), IdsKey(layer)})
    ELSE Ok(None)

\* The keys named by each message are the f-string fields of the message.
CheckConfParams(c, layer_arg) ==
    LET layer == ConfGet(c, "layer") IN
    IF layer = None
    THEN Raise("layer_missing", {layer_arg})
    ELSE IF ConfGet(c, TableKey(layer)) = None
    THEN Raise("table_missing", {TableKey(layer_arg)})
    ELSE IF ConfGet(c, GroupKey(layer)) = None /\ ConfGet(c, IdsKey(layer)) = None
    THEN Raise("group_and_ids_missing", {GroupKey(layer), IdsKey(layer)})
    ELSE Ok(None)

\* A call of check_spark_dataflowpipeline_conf_params(spark, layer_arg), as
\* get_bronze_dataflow_spec ("bronze") and get_silver_dataflow_spec ("silver")
\* make it.
CheckConf(layer_arg) ==
    /\ op = "none" /\ pc = "call"
    /\ op' = "check_conf"
    /\ pc' = "done"
    /\ args' = [layer_arg |-> layer_arg]
    /\ result' = CheckConfParams(conf, layer_arg)
    /\ UNCHANGED <<conf, table, secretCalls>>
    /\ UNCHANGED orchestratorVars

InitConf ==
    /\ op = "none" /\ pc = "call"
    /\ \E s \in LayerSettings, b \in LayerConfs("bronze"), v \in LayerConfs("silver") :
           conf = Merge(s, Merge(b, v))
    /\ table = {}
    /\ args = NoArgs
    /\ result = NoResult
    /\ secretCalls = <<>>
    /\ NoOrchestrator

NextConf == \E layer_arg \in Layers : CheckConf(layer_arg)

SpecConf == InitConf /\ [][NextConf]_vars

\* What Validate configuration has to reject, in the words of section 4.2.
LayerNotSet(c) == "layer" \notin DOMAIN c
TableNotSet(c) == ~LayerNotSet(c) /\ TableKey(c["layer"]) \notin DOMAIN c
NeitherGroupNorIds(c) ==
    /\ ~LayerNotSet(c)
    /\ GroupKey(c["layer"]) \notin DOMAIN c
    /\ IdsKey(c["layer"]) \notin DOMAIN c

CheckConfDone == op = "check_conf" /\ pc = "done"

\* C3: Validate configuration raises exactly when 'layer' is not set, when
\* '<layer>.dataflowspecTable' is not set or when neither '<layer>.group' nor
\* '<layer>.dataflowIds' is set (<layer> the configured layer), returns
\* normally in every other case, and leaves the configuration as it was.
C3_ValidateFailsExactlyWhenKeyMissing ==
    [][ (op' = "check_conf") =>
            /\ conf' = conf
            /\ (result'.status = "error") <=>
                   (LayerNotSet(conf) \/ TableNotSet(conf) \/ NeitherGroupNorIds(conf))
            /\ result'.status \in {"ok", "error"} ]_vars

\* C3 witness: validation rejected a configuration whose configured layer has
\* no table although the calling operation's own layer has one.
C3_Witness ==
    /\ CheckConfDone
    /\ result.status = "error"
    /\ TableNotSet(conf)
    /\ conf["layer"] # args.layer_arg
    /\ TableKey(args.layer_arg) \in DOMAIN conf

\* C4: every error of Validate configuration names the exact key whose
\* absence caused it: 'layer', '<layer>.dataflowspecTable' or the pair
\* '<layer>.group' / '<layer>.dataflowIds', <layer> the configured layer.
C4_ErrorNamesTheMissingKey ==
    (CheckConfDone /\ result.status = "error") =>
        /\ LayerNotSet(conf) => result.names = {"layer"}
        /\ TableNotSet(conf) => result.names = {TableKey(conf["layer"])}
        /\ (~LayerNotSet(conf) /\ ~TableNotSet(conf)) =>
               result.names = {GroupKey(conf["layer"]), IdsKey(conf["layer"])}

-----------------------------------------------------------------------------
(* _get_dataflow_spec                                                      *)

\* Bounds of the metadata table: versions 1..MaxVersion, at most MaxRows rows.
MaxVersion == 2
MaxRows == 2

\* A row of the metadata table: the columns the query reads, and updatedBy to
\* stand for the rest of the row (two rows of one flow may carry the same
\* version and differ elsewhere).  version is the column's sort key.
Rows ==
    [dataFlowGroup : Groups, dataFlowId : Ids, version : 1..MaxVersion,
     updatedBy : {"u1", "u2"}]

RECURSIVE SubsetsUpTo(_, _)
SubsetsUpTo(S, n) ==
    IF n = 0 THEN {{}}
    ELSE LET smaller == SubsetsUpTo(S, n - 1)
         IN smaller \cup { T \cup {x} : T \in smaller, x \in S }

Tables == SubsetsUpTo(Rows, MaxRows)

\* Window.partitionBy(dataFlowGroup, dataFlowId): the partitions of the rows.
Partition(rows, r) ==
    { q \in rows : q.dataFlowGroup = r.dataFlowGroup /\ q.dataFlowId = r.dataFlowId }

Partitions(rows) == { Partition(rows, r) : r \in rows }

\* row_number() over a partition ordered by version: the numberings 1..n of
\* the partition's rows that respect the order; rows of equal version come in
\* either order.
RowNumbers(part, descending) ==
    { rn \in [part -> 1..Cardinality(part)] :
        /\ \A a, b \in part : a # b => rn[a] # rn[b]
        /\ \A a, b \in part :
               (IF descending THEN a.version > b.version ELSE a.version < b.version)
                   => rn[a] < rn[b] }

\* The rows that some numbering of their partition numbers 1.
FirstRows(part, descending) ==
    { r \in part : \E rn \in RowNumbers(part, descending) : rn[r] = 1 }

\* The possible results of  where(row_num == 1): one first row per partition.
KeepRowNumberOne(rows, descending) ==
    { S \in SUBSET rows :
        \A part \in Partitions(rows) :
            /\ Cardinality(S \cap part) = 1
            /\ S \cap part \subseteq FirstRows(part, descending) }

LatestVersionRowsAscending(rows) == KeepRowNumberOne(rows, FALSE)

\* orderBy(col("version").desc()), row_number, keep row_num 1.
LatestVersionRows(rows) == KeepRowNumberOne(rows, TRUE)

FilterRowsIdsFirst(rows, group, dataflow_ids) ==
    IF Truthy(group) \/ Truthy(dataflow_ids)
    THEN IF Truthy(dataflow_ids)
         THEN { r \in rows : r.dataFlowId \in IdsIn(dataflow_ids) }
         ELSE { r \in rows : r.dataFlowGroup = group }
    ELSE rows

\* where(col("dataFlowGroup") == lit(group) if group else "dataFlowId in (...)")
FilterRows(rows, group, dataflow_ids) ==
    IF Truthy(group) \/ Truthy(dataflow_ids)
    THEN IF Truthy(group)
         THEN { r \in rows : r.dataFlowGroup = group }
         ELSE { r \in rows : r.dataFlowId \in IdsIn(dataflow_ids) }
    ELSE rows

EffectiveGroupOfArgument(c, layer, group) == group

\* The group and the id list the query uses: the argument when it is truthy,
\* else the configured value.
EffectiveGroup(c, layer, group) ==
    IF ~Truthy(group) THEN ConfGet(c, GroupKey(layer)) ELSE group

EffectiveIds(c, layer, dataflow_ids) ==
    IF ~Truthy(dataflow_ids) THEN ConfGet(c, IdsKey(layer)) ELSE dataflow_ids

\* The data frame given as dataflow_spec_df; None when the table is to be read
\* from the catalog under the configured name.
GivenDf == "dataflow_spec_df"

\* The possible outcomes of _get_dataflow_spec.  spark.conf.get without a
\* default raises when the key is not set.
GetDataflowSpecOutcomes(c, tbl, layer, df, group, dataflow_ids) ==
    IF df = None /\ TableKey(layer) \notin DOMAIN c
    THEN { Raise("conf_key_not_set", {TableKey(layer)}) }
    ELSE { Ok(S) :
             S \in LatestVersionRows(
                       FilterRows(tbl, EffectiveGroup(c, layer, group),
                                  EffectiveIds(c, layer, dataflow_ids))) }

GetDataflowSpec(layer, df, group, dataflow_ids) ==
    /\ op = "none" /\ pc = "call"
    /\ op' = "get_dataflow_spec"
    /\ pc' = "done"
    /\ args' = [layer |-> layer, dataflow_spec_df |-> df, group |-> group,
                dataflow_ids |-> dataflow_ids]
    /\ \E out \in GetDataflowSpecOutcomes(conf, table, layer, df, group, dataflow_ids) :
           result' = out
    /\ UNCHANGED <<conf, table, secretCalls>>
    /\ UNCHANGED orchestratorVars

\* Configurations of the retrieval: every combination of set / not set of the
\* three bronze keys, next to a complete silver configuration.
RetrieveConfs ==
    { Merge(b, [k \in {TableKey("silver"), GroupKey("silver"), IdsKey("silver")} |->
                   CASE k = TableKey("silver") -> SpecTableName
                     [] k = GroupKey("silver") -> "A2"
                     [] k = IdsKey("silver") -> "'100','101'"]) :
        b \in { x \in LayerConfs("bronze") :
                  /\ GroupKey("bronze") \in DOMAIN x => x[GroupKey("bronze")] = "A1"
                  /\ IdsKey("bronze") \in DOMAIN x => x[IdsKey("bronze")] = "'100'" } }

InitRetrieve ==
    /\ op = "none" /\ pc = "call"
    /\ conf \in RetrieveConfs
    /\ table \in Tables
    /\ args = NoArgs
    /\ result = NoResult
    /\ secretCalls = <<>>
    /\ NoOrchestrator

NextRetrieve ==
    \E layer \in Layers, df \in {None, GivenDf},
       group \in {None, "", "A2"}, dataflow_ids \in {None, "'100','101'"} :
        GetDataflowSpec(layer, df, group, dataflow_ids)

SpecRetrieve == InitRetrieve /\ [][NextRetrieve]_vars

GetDataflowSpecReturned ==
    op = "get_dataflow_spec" /\ pc = "done" /\ result.status = "ok"

\* The group and id list a retrieval was asked for: the argument, or the
\* configured value of the layer when the argument is None or empty.
RequestedGroup ==
    IF args.group \notin {None, ""} THEN args.group
    ELSE IF GroupKey(args.layer) \in DOMAIN conf THEN conf[GroupKey(args.layer)]
    ELSE None

RequestedIds ==
    IF args.dataflow_ids \notin {None, ""} THEN args.dataflow_ids
    ELSE IF IdsKey(args.layer) \in DOMAIN conf THEN conf[IdsKey(args.layer)]
    ELSE None

FilteredRows == FilterRows(table, RequestedGroup, RequestedIds)

SameFlow(a, b) == a.dataFlowGroup = b.dataFlowGroup /\ a.dataFlowId = b.dataFlowId

\* C1: the result of _get_dataflow_spec holds, for every (dataFlowGroup,
\* dataFlowId) pair of the filtered rows, exactly one row of that pair, a row
\* of the pair's maximum version; rows of a lower version are absent.
C1_LatestVersionPerFlow ==
    GetDataflowSpecReturned =>
        /\ result.value \subseteq FilteredRows
        /\ \A r \in FilteredRows :
               /\ Cardinality({ x \in result.value : SameFlow(x, r) }) = 1
               /\ \A x \in result.value :
                      SameFlow(x, r) => x.version >= r.version
               /\ (\E m \in FilteredRows : SameFlow(m, r) /\ m.version > r.version)
                      => r \notin result.value

\* C1 witness: a flow of the filtered rows has two versions and the result
\* was returned with the row of the higher one.
C1_Witness ==
    /\ GetDataflowSpecReturned
    /\ \E r, m \in FilteredRows :
           /\ SameFlow(m, r) /\ m.version > r.version
           /\ m \in result.value

\* C2: with a group requested, every returned row is of that group and every
\* (group, dataFlowId) pair the table has for that group is in the result,
\* whatever ids the other groups share with it.
C2_GroupFilter ==
    (GetDataflowSpecReturned /\ RequestedGroup \notin {None, ""}) =>
        /\ \A x \in result.value : x.dataFlowGroup = RequestedGroup
        /\ \A t \in table :
               t.dataFlowGroup = RequestedGroup
                   => \E x \in result.value : SameFlow(x, t)

\* C2 witness: the table has the same dataFlowId in the requested group and in
\* another one, an id list is configured too, and the result was returned.
C2_Witness ==
    /\ GetDataflowSpecReturned
    /\ RequestedGroup \notin {None, ""}
    /\ RequestedIds \notin {None, ""}
    /\ \E t, u \in table :
           /\ t.dataFlowGroup = RequestedGroup
           /\ u.dataFlowGroup # RequestedGroup
           /\ u.dataFlowId = t.dataFlowId
           /\ u.dataFlowId \in IdsIn(RequestedIds)
    /\ result.value # {}

-----------------------------------------------------------------------------
(* Serialized payloads                                                     *)

\* Python's False, as a default value.
False == "False"

\* The text of a JSON document, and a text that is no JSON.
Serialized(doc) == [json |-> TRUE, doc |-> doc]
Malformed == [json |-> FALSE]

\* json.loads
JsonLoads(text) == IF text.json THEN Ok(text.doc) ELSE Raise("json_decode", {})

\* The value a payload gives to a key.
Supplied(key) == key \o "_value"

\* populate_additional_df_cols
PopulateAdditionalDfCols(row, additional_columns) ==
    [k \in DOMAIN row \cup additional_columns |-> IF k \in DOMAIN row THEN row[k] ELSE None]

\* cls(**kwargs) of a dataclass whose fields have no defaults: TypeError on a
\* keyword that is no field, and on a field without a keyword.
Construct(fields, kwargs) ==
    IF DOMAIN kwargs \ fields # {}
    THEN Raise("unexpected_keyword", DOMAIN kwargs \ fields)
    ELSE IF fields \ DOMAIN kwargs # {}
    THEN Raise("missing_argument", fields \ DOMAIN kwargs)
    ELSE Ok(kwargs)

\* The state before a call of a method that reads nothing but its arguments.
InitCall ==
    /\ op = "none" /\ pc = "call"
    /\ conf = << >>
    /\ table = {}
    /\ args = NoArgs
    /\ result = NoResult
    /\ secretCalls = <<>>
    /\ NoOrchestrator

-----------------------------------------------------------------------------
(* get_cdc_apply_changes                                                   *)

cdc_applychanges_api_mandatory_attributes == {"keys", "sequence_by", "scd_type"}

cdc_applychanges_api_attributes ==
    {"keys", "sequence_by", "where", "ignore_null_updates", "apply_as_deletes",
     "apply_as_truncates", "column_list", "except_column_list", "scd_type",
     "track_history_column_list", "track_history_except_column_list", "flow_name",
     "once", "ignore_null_updates_column_list",
     "ignore_null_updates_except_column_list"}

cdc_applychanges_api_attributes_defaults ==
    [k \in {"where", "ignore_null_updates", "apply_as_deletes", "apply_as_truncates",
            "column_list", "except_column_list", "track_history_column_list",
            "track_history_except_column_list", "flow_name", "once",
            "ignore_null_updates_column_list",
            "ignore_null_updates_except_column_list"} |->
        IF k \in {"ignore_null_updates", "once"} THEN False ELSE None]

additional_cdc_apply_changes_columns == {"flow_name", "once"}

\* The fields of the CDCApplyChanges dataclass.
CDCApplyChangesFields ==
    {"keys", "sequence_by", "where", "ignore_null_updates", "apply_as_deletes",
     "apply_as_truncates", "column_list", "except_column_list", "scd_type",
     "track_history_column_list", "track_history_except_column_list", "flow_name",
     "once", "ignore_null_updates_column_list",
     "ignore_null_updates_except_column_list"}

\* get_cdc_apply_changes with the set named by the error and the step that
\* fills the absent attributes left open: namesAll names every absent
\* attribute instead of the absent mandatory ones, fill = FALSE leaves the
\* filling to populate_additional_df_cols alone.
CdcApplyChangesWith(cdc_apply_changes, namesAll, fill) ==
    LET parsed == JsonLoads(cdc_apply_changes) IN
    IF parsed.status = "error" THEN parsed
    ELSE
    LET json_cdc_apply_changes == parsed.value
        payload_keys == DOMAIN json_cdc_apply_changes
        missing_cdc_payload_keys == cdc_applychanges_api_attributes \ payload_keys
        missing_mandatory_attr == cdc_applychanges_api_mandatory_attributes \ payload_keys
    IN
    IF missing_mandatory_attr # {}
    THEN Raise("mandatory_missing",
               IF namesAll THEN missing_cdc_payload_keys ELSE missing_mandatory_attr)
    ELSE
    LET filled ==
            [k \in payload_keys \cup (IF fill THEN missing_cdc_payload_keys ELSE {}) |->
                IF k \in payload_keys THEN json_cdc_apply_changes[k]
                ELSE cdc_applychanges_api_attributes_defaults[k]]
    IN Construct(CDCApplyChangesFields,
                 PopulateAdditionalDfCols(filled, additional_cdc_apply_changes_columns))

GetCdcApplyChangesNamingAllAbsent(cdc_apply_changes) ==
    CdcApplyChangesWith(cdc_apply_changes, TRUE, TRUE)

GetCdcApplyChangesWithoutDefaults(cdc_apply_changes) ==
    CdcApplyChangesWith(cdc_apply_changes, FALSE, FALSE)

GetCdcApplyChangesResult(cdc_apply_changes) ==
    CdcApplyChangesWith(cdc_apply_changes, FALSE, TRUE)

\* The serialized CDC payloads: a JSON object with any of the fifteen
\* attributes and possibly a key that is none of them, or no JSON at all.
CdcPayloads ==
    { Serialized([k \in D |-> Supplied(k)]) :
        D \in SUBSET (cdc_applychanges_api_attributes \cup {"unknown_attribute"}) }
    \cup {Malformed}

GetCdcApplyChanges(cdc_apply_changes) ==
    /\ op = "none" /\ pc = "call"
    /\ op' = "get_cdc_apply_changes"
    /\ pc' = "done"
    /\ args' = [cdc_apply_changes |-> cdc_apply_changes]
    /\ result' = GetCdcApplyChangesResult(cdc_apply_changes)
    /\ UNCHANGED <<conf, table, secretCalls>>
    /\ UNCHANGED orchestratorVars

\* The guard is repeated ahead of the quantifier so that the payloads are
\* enumerated in the calling state alone.
NextCdc ==
    /\ pc = "call"
    /\ \E cdc_apply_changes \in CdcPayloads : GetCdcApplyChanges(cdc_apply_changes)

SpecCdc == InitCall /\ [][NextCdc]_vars

GetCdcApplyChangesDone ==
    op = "get_cdc_apply_changes" /\ pc = "done" /\ args.cdc_apply_changes.json

\* The keys of the CDC payload of the call.
CdcPayloadKeys == DOMAIN args.cdc_apply_changes.doc

\* The default section 3 documents for an optional CDC attribute.
DocumentedCdcDefault(k) == IF k \in {"ignore_null_updates", "once"} THEN False ELSE None

\* C5: a CDC payload lacking one of keys, sequence_by, scd_type makes
\* get_cdc_apply_changes raise, the message lists exactly the mandatory
\* attributes the payload lacks, and no CDCApplyChanges record is returned.
C5_CdcMissingMandatoryNamed ==
    (GetCdcApplyChangesDone /\ ~({"keys", "sequence_by", "scd_type"} \subseteq CdcPayloadKeys)) =>
        /\ result.status = "error"
        /\ result.kind = "mandatory_missing"
        /\ result.names = {"keys", "sequence_by", "scd_type"} \ CdcPayloadKeys

\* C5 witness: a payload with scd_type and sequence_by absent, optional
\* attributes absent as well, was rejected.
C5_Witness ==
    /\ GetCdcApplyChangesDone
    /\ CdcPayloadKeys = {"keys", "where"}
    /\ result.status = "error"

\* C6: a CDC payload whose keys are among the fifteen attributes and include
\* the three mandatory ones is accepted; every attribute it has keeps its
\* value and every absent one has its documented default.
C6_CdcDefaults ==
    (/\ GetCdcApplyChangesDone
     /\ CdcPayloadKeys \subseteq cdc_applychanges_api_attributes
     /\ {"keys", "sequence_by", "scd_type"} \subseteq CdcPayloadKeys) =>
        /\ result.status = "ok"
        /\ DOMAIN result.value = cdc_applychanges_api_attributes
        /\ \A k \in CdcPayloadKeys : result.value[k] = args.cdc_apply_changes.doc[k]
        /\ \A k \in cdc_applychanges_api_attributes \ CdcPayloadKeys :
               result.value[k] = DocumentedCdcDefault(k)

\* C6 witness: the payload with exactly keys, sequence_by and scd_type was
\* accepted.
C6_Witness ==
    /\ GetCdcApplyChangesDone
    /\ CdcPayloadKeys = {"keys", "sequence_by", "scd_type"}
    /\ result.status = "ok"

-----------------------------------------------------------------------------
(* get_append_flows                                                        *)

\* Bounds of the append-flow and sink payloads: at most MaxEntries entries,
\* each with a key set at most MaxKeyDiff keys away from the mandatory one.
MaxEntries == 2
MaxKeyDiff == 1

\* The sequences over S of length at most n.
SeqsUpTo(S, n) == UNION { [1..m -> S] : m \in 0..n }

\* The key sets that differ from the set base in at most MaxKeyDiff keys of
\* the set universe.
KeySetsNear(base, universe) ==
    { D \in SUBSET universe :
        Cardinality((D \ base) \cup (base \ D)) <= MaxKeyDiff }

MandatoryWithoutCreateStreamingTable == {"name", "source_format", "source_details"}

append_flow_mandatory_attributes ==
    {"name", "source_format", "create_streaming_table", "source_details"}

AppendFlowDefaultsOnceAbsent ==
    [k \in {"comment", "create_streaming_table", "reader_options", "spark_conf", "once"} |->
        IF k = "create_streaming_table" THEN False ELSE None]

append_flow_api_attributes_defaults ==
    [k \in {"comment", "create_streaming_table", "reader_options", "spark_conf", "once"} |->
        IF k \in {"create_streaming_table", "once"} THEN False ELSE None]

\* The fields of the AppendFlow dataclass.
AppendFlowFields ==
    {"name", "comment", "create_streaming_table", "source_format", "source_details",
     "reader_options", "spark_conf", "once"}

\* The body of the loop of get_append_flows for one entry.
AppendFlowOf(json_append_flow) ==
    LET payload_keys == DOMAIN json_append_flow
        missing_append_flow_payload_keys ==
            DOMAIN append_flow_api_attributes_defaults \ payload_keys
        missing_mandatory_attr == append_flow_mandatory_attributes \ payload_keys
    IN
    IF missing_mandatory_attr # {}
    THEN Raise("mandatory_missing", missing_mandatory_attr)
    ELSE Construct(AppendFlowFields,
                   [k \in payload_keys \cup missing_append_flow_payload_keys |->
                       IF k \in payload_keys THEN json_append_flow[k]
                       ELSE append_flow_api_attributes_defaults[k]])

\* The loop of get_append_flows from entry i on, list_append_flows holding the
\* records of the entries before i.
RECURSIVE AppendFlowsFrom(_, _, _)
AppendFlowsFrom(json_append_flows, i, list_append_flows) ==
    IF i > Len(json_append_flows) THEN Ok(list_append_flows)
    ELSE LET flow == AppendFlowOf(json_append_flows[i]) IN
         IF flow.status = "error" THEN flow
         ELSE AppendFlowsFrom(json_append_flows, i + 1,
                              Append(list_append_flows, flow.value))

GetAppendFlowsResult(append_flows) ==
    LET parsed == JsonLoads(append_flows) IN
    IF parsed.status = "error" THEN parsed
    ELSE AppendFlowsFrom(parsed.value, 1, <<>>)

\* The entries of an append-flow payload: JSON objects over the attributes of
\* an append flow and a key that is none of them.
AppendFlowEntries ==
    { [k \in D |-> Supplied(k)] :
        D \in KeySetsNear(append_flow_mandatory_attributes,
                          AppendFlowFields \cup {"unknown_attribute"}) }

AppendFlowPayloads ==
    { Serialized(l) : l \in SeqsUpTo(AppendFlowEntries, MaxEntries) } \cup {Malformed}

GetAppendFlows(append_flows) ==
    /\ op = "none" /\ pc = "call"
    /\ op' = "get_append_flows"
    /\ pc' = "done"
    /\ args' = [append_flows |-> append_flows]
    /\ result' = GetAppendFlowsResult(append_flows)
    /\ UNCHANGED <<conf, table, secretCalls>>
    /\ UNCHANGED orchestratorVars

NextAppend ==
    /\ pc = "call"
    /\ \E append_flows \in AppendFlowPayloads : GetAppendFlows(append_flows)

SpecAppend == InitCall /\ [][NextAppend]_vars

GetAppendFlowsDone ==
    op = "get_append_flows" /\ pc = "done" /\ args.append_flows.json

\* The entries of the append-flow payload of the call.
AppendFlowPayload == args.append_flows.doc

MandatoryOnly(entry) ==
    DOMAIN entry = {"name", "source_format", "create_streaming_table", "source_details"}

LacksMandatory(entry) ==
    ~({"name", "source_format", "create_streaming_table", "source_details"}
          \subseteq DOMAIN entry)

\* C7: an entry with exactly name, source_format, create_streaming_table and
\* source_details yields a record with these four values and comment,
\* reader_options, spark_conf absent, once false; a payload of such entries is
\* accepted; the result has one record per entry, each holding its entry's
\* values, in payload order.
C7_AppendFlowDefaults ==
    GetAppendFlowsDone =>
        /\ (\A i \in 1..Len(AppendFlowPayload) : MandatoryOnly(AppendFlowPayload[i]))
               => result.status = "ok"
        /\ result.status = "ok" =>
               /\ Len(result.value) = Len(AppendFlowPayload)
               /\ \A i \in 1..Len(AppendFlowPayload) :
                      /\ \A k \in DOMAIN AppendFlowPayload[i] :
                             result.value[i][k] = AppendFlowPayload[i][k]
                      /\ MandatoryOnly(AppendFlowPayload[i]) =>
                             result.value[i] =
                                 [name |-> AppendFlowPayload[i]["name"],
                                  source_format |-> AppendFlowPayload[i]["source_format"],
                                  create_streaming_table |->
                                      AppendFlowPayload[i]["create_streaming_table"],
                                  source_details |-> AppendFlowPayload[i]["source_details"],
                                  comment |-> None,
                                  reader_options |-> None,
                                  spark_conf |-> None,
                                  once |-> False]

\* C7 witness: a payload of two entries, the first with a comment and the
\* second with the four mandatory attributes alone, was accepted.
C7_Witness ==
    /\ GetAppendFlowsDone
    /\ Len(AppendFlowPayload) = 2
    /\ "comment" \in DOMAIN AppendFlowPayload[1]
    /\ MandatoryOnly(AppendFlowPayload[2])
    /\ result.status = "ok"

\* The first entry of the payload that get_append_flows cannot turn into a
\* record: one that lacks a mandatory attribute or has an unknown one; 0 when
\* there is none.
FirstBadAppendFlow ==
    LET bad == { i \in 1..Len(AppendFlowPayload) :
                   \/ LacksMandatory(AppendFlowPayload[i])
                   \/ ~(DOMAIN AppendFlowPayload[i] \subseteq AppendFlowFields) }
    IN IF bad = {} THEN 0 ELSE CHOOSE i \in bad : \A j \in bad : i <= j

\* C8: an entry that omits create_streaming_table (or name, source_format,
\* source_details) makes get_append_flows raise; the error of the first entry
\* in fault names exactly the mandatory attributes that entry lacks, and no
\* record with a defaulted create_streaming_table is returned.
C8_AppendFlowMandatoryExplicit ==
    (GetAppendFlowsDone
        /\ \E i \in 1..Len(AppendFlowPayload) : LacksMandatory(AppendFlowPayload[i])) =>
        /\ result.status = "error"
        /\ LacksMandatory(AppendFlowPayload[FirstBadAppendFlow]) =>
               /\ result.kind = "mandatory_missing"
               /\ result.names =
                      {"name", "source_format", "create_streaming_table", "source_details"}
                          \ DOMAIN AppendFlowPayload[FirstBadAppendFlow]

\* C8 witness: the second entry of a payload omits create_streaming_table
\* alone, the first is complete, and the call raised.
C8_Witness ==
    /\ GetAppendFlowsDone
    /\ Len(AppendFlowPayload) = 2
    /\ MandatoryOnly(AppendFlowPayload[1])
    /\ DOMAIN AppendFlowPayload[2] = {"name", "source_format", "source_details"}
    /\ result.status = "error"

-----------------------------------------------------------------------------
(* get_sinks                                                               *)

SupportedFormatsWithAvro == {"delta", "kafka", "avro"}

sink_mandatory_attributes == {"name", "format", "options"}
supported_sink_formats == {"delta", "kafka"}

\* The fields of the DLTSink dataclass.
DLTSinkFields == {"name", "format", "options"}

ScopeRef == "kafka_bootstrap_servers_secrets_scope"
KeyRef == "kafka_bootstrap_servers_secrets_key"
BootstrapServers == "kafka.bootstrap.servers"

\* The secret store: the secrets it holds, by <<scope, key>>.
SecretStore == [p \in {<<"scope1", "key1">>} |-> "broker1:9092"]

\* dbutils.secrets.get(scope, key); it raises for a secret the store lacks.
SecretsGet(scope, key) ==
    IF <<scope, key>> \in DOMAIN SecretStore
    THEN Ok(SecretStore[<<scope, key>>])
    ELSE Raise("secret_not_found", {scope, key})

\* The outcome of a step together with the secret-store queries it made.
Step(out, calls) == [out |-> out, calls |-> calls]

\* The body of the loop of get_sinks for one entry; deleteRefs = FALSE leaves
\* out the two del statements.
SinkWith(json_sink, deleteRefs) ==
    LET payload_keys == DOMAIN json_sink
        missing_mandatory_attr == sink_mandatory_attributes \ payload_keys
    IN
    IF missing_mandatory_attr # {}
    THEN Step(Raise("mandatory_missing", missing_mandatory_attr), <<>>)
    ELSE IF json_sink["format"] \notin supported_sink_formats
    THEN Step(Raise("unsupported_format", {json_sink["format"]}), <<>>)
    ELSE
    LET parsed == JsonLoads(json_sink["options"]) IN
    IF "options" \in payload_keys /\ parsed.status = "error"
    THEN Step(parsed, <<>>)
    ELSE
    LET options == parsed.value
        resolve ==
            /\ json_sink["format"] = "kafka"
            /\ "options" \in payload_keys
            /\ ScopeRef \in DOMAIN options
            /\ KeyRef \in DOMAIN options
        secret == SecretsGet(options[ScopeRef], options[KeyRef])
    IN
    IF ~resolve
    THEN Step(Construct(DLTSinkFields, [json_sink EXCEPT !["options"] = options]), <<>>)
    ELSE IF secret.status = "error"
    THEN Step(secret, << <<options[ScopeRef], options[KeyRef]>> >>)
    ELSE Step(Construct(DLTSinkFields,
                        [json_sink EXCEPT !["options"] =
                            [k \in (DOMAIN options \cup {BootstrapServers})
                                       \ (IF deleteRefs THEN {ScopeRef, KeyRef} ELSE {}) |->
                                IF k = BootstrapServers THEN secret.value ELSE options[k]]]),
              << <<options[ScopeRef], options[KeyRef]>> >>)

SinkKeepingSecretRefs(json_sink) == SinkWith(json_sink, FALSE)

\* The loop body asking the secret store twice for what it asks once.
SinkQueryingTwice(json_sink) ==
    Step(SinkWith(json_sink, TRUE).out,
         SinkWith(json_sink, TRUE).calls \o SinkWith(json_sink, TRUE).calls)

SinkOf(json_sink) == SinkWith(json_sink, TRUE)

\* The loop of get_sinks from entry i on, dlt_sinks holding the records of the
\* entries before i and calls the secret-store queries made for them.
RECURSIVE SinksFrom(_, _, _, _)
SinksFrom(json_sinks, i, dlt_sinks, calls) ==
    IF i > Len(json_sinks) THEN Step(Ok(dlt_sinks), calls)
    ELSE LET sink == SinkOf(json_sinks[i]) IN
         IF sink.out.status = "error" THEN Step(sink.out, calls \o sink.calls)
         ELSE SinksFrom(json_sinks, i + 1, Append(dlt_sinks, sink.out.value),
                        calls \o sink.calls)

GetSinksResult(sinks) ==
    LET parsed == JsonLoads(sinks) IN
    IF parsed.status = "error" THEN Step(parsed, <<>>)
    ELSE SinksFrom(parsed.value, 1, <<>>, <<>>)

\* The serialized options of a sink entry: a JSON object with any of the two
\* secret references, a bootstrap-servers option and a topic; one whose key
\* reference names a secret the store lacks; a text that is no JSON.
SinkOptionTexts ==
    { Serialized([k \in D |-> CASE k = ScopeRef -> "scope1"
                                [] k = KeyRef -> "key1"
                                [] OTHER -> Supplied(k)]) :
        D \in SUBSET {ScopeRef, KeyRef, BootstrapServers, "topic"} }
    \cup
    { Serialized([k \in {ScopeRef, KeyRef, "topic"} |->
                     CASE k = ScopeRef -> "scope1"
                       [] k = KeyRef -> "key2"
                       [] OTHER -> Supplied(k)]),
      Malformed }

\* The entries of a sink payload: the three mandatory attributes with every
\* format and options text, with or without an unknown attribute, and the
\* entries that lack mandatory attributes.
SinkEntries ==
    { [k \in D |-> CASE k = "format" -> f
                     [] k = "options" -> o
                     [] OTHER -> Supplied(k)] :
        D \in {sink_mandatory_attributes}, f \in {"delta", "kafka", "avro"},
        o \in SinkOptionTexts }
    \cup
    { [k \in D |-> CASE k = "format" -> f
                     [] k = "options" ->
                            Serialized([j \in {ScopeRef, KeyRef} |->
                                           IF j = ScopeRef THEN "scope1" ELSE "key1"])
                     [] OTHER -> Supplied(k)] :
        D \in (SUBSET (sink_mandatory_attributes \cup {"unknown_attribute"}))
                  \ {sink_mandatory_attributes},
        f \in {"kafka", "avro"} }

GetSinks(sinks) ==
    /\ op = "none" /\ pc = "call"
    /\ op' = "get_sinks"
    /\ pc' = "done"
    /\ args' = [sinks |-> sinks]
    /\ result' = GetSinksResult(sinks).out
    /\ secretCalls' = secretCalls \o GetSinksResult(sinks).calls
    /\ UNCHANGED <<conf, table>>
    /\ UNCHANGED orchestratorVars

NextSinks ==
    /\ pc = "call"
    /\ \/ \E l \in SeqsUpTo(SinkEntries, MaxEntries) : GetSinks(Serialized(l))
       \/ GetSinks(Malformed)

SpecSinks == InitCall /\ [][NextSinks]_vars

GetSinksDone == op = "get_sinks" /\ pc = "done" /\ args.sinks.json

\* The entries of the sink payload of the call.
SinkPayload == args.sinks.doc

SinkLacksMandatory(entry) == ~({"name", "format", "options"} \subseteq DOMAIN entry)

SinkFormatUnsupported(entry) ==
    /\ {"name", "format", "options"} \subseteq DOMAIN entry
    /\ entry["format"] \notin {"delta", "kafka"}

\* A kafka sink entry whose options hold both bootstrap-server references.
HasSecretRefs(entry) ==
    /\ {"name", "format", "options"} \subseteq DOMAIN entry
    /\ entry["format"] = "kafka"
    /\ entry["options"].json
    /\ {ScopeRef, KeyRef} \subseteq DOMAIN entry["options"].doc

\* An entry get_sinks turns into a record: the three attributes and no other,
\* a supported format, options that are JSON, and references, if any, to a
\* secret the store holds.
SinkParses(entry) ==
    /\ DOMAIN entry = {"name", "format", "options"}
    /\ entry["format"] \in {"delta", "kafka"}
    /\ entry["options"].json
    /\ HasSecretRefs(entry) =>
           <<entry["options"].doc[ScopeRef], entry["options"].doc[KeyRef]>>
               \in DOMAIN SecretStore

\* C9: an entry that lacks name, format or options makes get_sinks raise a
\* missing-mandatory-keys error, an entry with all three and a format other
\* than delta and kafka an unsupported-format error (the error is that of the
\* first entry that does not parse); in both cases no sink list is returned.
C9_SinkErrors ==
    GetSinksDone =>
        \A i \in 1..Len(SinkPayload) :
            /\ (SinkLacksMandatory(SinkPayload[i]) \/ SinkFormatUnsupported(SinkPayload[i]))
                   => result.status = "error"
            /\ (\A j \in 1..(i - 1) : SinkParses(SinkPayload[j])) =>
                   /\ SinkLacksMandatory(SinkPayload[i]) =>
                          /\ result.status = "error"
                          /\ result.kind = "mandatory_missing"
                          /\ result.names = {"name", "format", "options"} \ DOMAIN SinkPayload[i]
                   /\ SinkFormatUnsupported(SinkPayload[i]) =>
                          /\ result.status = "error"
                          /\ result.kind = "unsupported_format"
                          /\ result.names = {SinkPayload[i]["format"]}

\* C9 witness: after a delta sink that parses, a sink of format avro with all
\* three attributes made the call raise.
C9_Witness ==
    /\ GetSinksDone
    /\ Len(SinkPayload) = 2
    /\ SinkParses(SinkPayload[1])
    /\ SinkPayload[1]["format"] = "delta"
    /\ SinkFormatUnsupported(SinkPayload[2])
    /\ SinkPayload[2]["format"] = "avro"
    /\ result.status = "error"

\* C10: in the list get_sinks returns, the record of a kafka sink whose
\* options hold both references has kafka.bootstrap.servers equal to the
\* store's secret for that (scope, key), has neither reference, and has every
\* other option of the entry with its value.
C10_KafkaSecretResolved ==
    (GetSinksDone /\ result.status = "ok") =>
        /\ Len(result.value) = Len(SinkPayload)
        /\ \A i \in 1..Len(SinkPayload) :
               HasSecretRefs(SinkPayload[i]) =>
                   LET given == SinkPayload[i]["options"].doc
                       options == result.value[i]["options"]
                   IN /\ BootstrapServers \in DOMAIN options
                      /\ options[BootstrapServers] =
                             SecretStore[<<given[ScopeRef], given[KeyRef]>>]
                      /\ ScopeRef \notin DOMAIN options
                      /\ KeyRef \notin DOMAIN options
                      /\ \A k \in DOMAIN given \ {ScopeRef, KeyRef, BootstrapServers} :
                             k \in DOMAIN options /\ options[k] = given[k]
                      /\ DOMAIN options \subseteq DOMAIN given \cup {BootstrapServers}

\* C10 witness: a kafka sink with both references, a topic and a
\* bootstrap-servers option of its own was returned, after a delta sink.
C10_Witness ==
    /\ GetSinksDone
    /\ result.status = "ok"
    /\ Len(SinkPayload) = 2
    /\ SinkPayload[1]["format"] = "delta"
    /\ HasSecretRefs(SinkPayload[2])
    /\ {"topic", BootstrapServers} \subseteq DOMAIN SinkPayload[2]["options"].doc
    /\ secretCalls = << <<"scope1", "key1">> >>

\* The <<scope, key>> the options of a kafka sink entry refer to.
RefsOf(entry) == <<entry["options"].doc[ScopeRef], entry["options"].doc[KeyRef]>>

\* One query per entry of the list that is a kafka sink with both references,
\* in the order of the entries.
QueriesFor(entries) ==
    LET referencing == SelectSeq(entries, HasSecretRefs)
    IN [i \in 1..Len(referencing) |-> RefsOf(referencing[i])]

\* The entries the loop of get_sinks handles: all of them, or those up to and
\* including the first that raises.
SinksReached ==
    LET raising == {i \in 1..Len(SinkPayload) : ~SinkParses(SinkPayload[i])}
    IN IF raising = {} THEN SinkPayload
       ELSE SubSeq(SinkPayload, 1, CHOOSE i \in raising : \A j \in raising : i <= j)

\* C11 as stated: over one call of get_sinks the secret store is queried
\* exactly once for each kafka sink entry of the payload whose options hold
\* both references, and for no other entry.
C11_QueriedOncePerReferencingSink ==
    GetSinksDone => secretCalls = QueriesFor(SinkPayload)

\* C11, amended: over one call of get_sinks the secret store is queried
\* exactly once for each kafka sink entry with both references that the loop
\* handles (every entry before it parses), in the order of the entries, and
\* never for a delta sink, a kafka sink lacking either reference, an entry
\* after one that raised, or a payload that is no JSON.
C11_QueriedOncePerSinkReached ==
    /\ GetSinksDone => secretCalls = QueriesFor(SinksReached)
    /\ (op = "get_sinks" /\ pc = "done" /\ ~args.sinks.json) => secretCalls = <<>>

\* C11 witness: a call returned the records of a kafka sink with both
\* references and of a kafka sink with only the scope reference, after one
\* query of the store.
C11_Witness ==
    /\ GetSinksDone
    /\ result.status = "ok"
    /\ Len(SinkPayload) = 2
    /\ HasSecretRefs(SinkPayload[1])
    /\ SinkPayload[2]["format"] = "kafka"
    /\ DOMAIN SinkPayload[2]["options"].doc = {ScopeRef, "topic"}
    /\ Len(secretCalls) = 1

-----------------------------------------------------------------------------
(* get_partition_cols                                                      *)

MaxCols == 3

\* A column name is a string, modelled as the sequence of its characters.
Whitespace == {" "}

\* The column names of the payloads: the empty string, whitespace-only
\* strings, names, and names with whitespace around them.
ColumnNames ==
    { <<>>, <<" ">>, <<" ", " ">>, <<"a">>, <<"b">>, <<" ", "a">>, <<"a", " ">> }

\* str.strip(): the string without its leading and trailing whitespace.
RECURSIVE Strip(_)
Strip(s) ==
    IF s = <<>> THEN s
    ELSE IF Head(s) \in Whitespace THEN Strip(Tail(s))
    ELSE IF s[Len(s)] \in Whitespace THEN Strip(SubSeq(s, 1, Len(s) - 1))
    ELSE s

\* A partition-column value: Python's None, or a list of column names.
NoCols == [absent |-> TRUE, cols |-> <<>>]
Cols(l) == [absent |-> FALSE, cols |-> l]

\* list(filter(None, partition_columns)): the entries that are truthy, and
\* of strings only the empty one is falsy.
FilterNone(l) == SelectSeq(l, LAMBDA x : x # <<>>)

get_partition_cols(partition_columns) ==
    IF partition_columns.absent \/ partition_columns.cols = <<>>
    THEN NoCols
    ELSE IF Len(partition_columns.cols) = 1
    THEN IF partition_columns.cols[1] = <<>> \/ Strip(partition_columns.cols[1]) = <<>>
         THEN NoCols
         ELSE partition_columns
    ELSE Cols(FilterNone(partition_columns.cols))

PartitionColumnValues == {NoCols} \cup { Cols(l) : l \in SeqsUpTo(ColumnNames, MaxCols) }

GetPartitionCols(partition_columns) ==
    /\ op = "none" /\ pc = "call"
    /\ op' = "get_partition_cols"
    /\ pc' = "done"
    /\ args' = [partition_columns |-> partition_columns]
    /\ result' = Ok(get_partition_cols(partition_columns))
    /\ UNCHANGED <<conf, table, secretCalls>>
    /\ UNCHANGED orchestratorVars

NextPartition ==
    /\ pc = "call"
    /\ \E partition_columns \in PartitionColumnValues : GetPartitionCols(partition_columns)

SpecPartition == InitCall /\ [][NextPartition]_vars

GetPartitionColsDone ==
    op = "get_partition_cols" /\ pc = "done" /\ ~args.partition_columns.absent

\* An entry that is empty or whitespace-only.
Blank(x) == Strip(x) = <<>>

\* C12: get_partition_cols gives absent for the empty list and for a
\* one-element list whose entry is empty or whitespace-only, returns a
\* one-element list with a non-blank entry unchanged, and returns a longer
\* list with its blank entries removed and the other entries in their order.
C12_PartitionCols ==
    GetPartitionColsDone =>
        LET given == args.partition_columns.cols
            got == result.value
        IN /\ given = <<>> => got = NoCols
           /\ (Len(given) = 1 /\ Blank(given[1])) => got = NoCols
           /\ (Len(given) = 1 /\ ~Blank(given[1])) => got = Cols(given)
           /\ Len(given) > 1 =>
                  got = Cols(SelectSeq(given, LAMBDA x : ~Blank(x)))

-----------------------------------------------------------------------------
(* Integration-test orchestrator                                           *)
(* (src/integration_tests/run_integration_tests.py): process_arguments     *)

\* input_args: the flags of the command line, the required ones, and the
\* choices of the flags that have choices.
ArgNames ==
    {"profile", "uc_catalog_name", "cloud_provider_name", "source",
     "eventhub_name", "eventhub_name_append_flow",
     "eventhub_producer_accesskey_name", "eventhub_consumer_accesskey_name",
     "eventhub_secrets_scope_name", "eventhub_accesskey_secret_name",
     "eventhub_namespace", "eventhub_port", "kafka_topic_name", "kafka_broker"}
RequiredArgs == {"uc_catalog_name", "cloud_provider_name", "source"}
SourceChoices == {"cloudfiles", "eventhub", "kafka"}

\* str.lower of the values a --source flag is given in the model.
Lower(v) ==
    CASE v = "EventHub" -> "eventhub"
      [] v = "KAFKA" -> "kafka"
      [] OTHER -> v

\* The mandatory_args lists of the two check_cond_mandatory_arg calls.
EventhubMandatoryArgsPortFirst ==
    <<"eventhub_port", "eventhub_name", "eventhub_name_append_flow",
      "eventhub_producer_accesskey_name", "eventhub_consumer_accesskey_name",
      "eventhub_secrets_scope_name", "eventhub_namespace">>

EventhubMandatoryArgs ==
    <<"eventhub_name", "eventhub_name_append_flow",
      "eventhub_producer_accesskey_name", "eventhub_consumer_accesskey_name",
      "eventhub_secrets_scope_name", "eventhub_namespace", "eventhub_port">>

KafkaMandatoryArgs == <<"kafka_topic_name", "kafka_broker">>

\* parser.parse_args() of a command line that gives the flags of the set
\* supplied, --source with the value source: the parser exits on a value that
\* is not among the choices and on a required flag that is not given;
\* otherwise every flag has its value, or None.
ParseArgs(supplied, source) ==
    IF "source" \in supplied /\ Lower(source) \notin SourceChoices
    THEN Raise("invalid_choice", {"source"})
    ELSE IF RequiredArgs \ supplied # {}
    THEN Raise("required", RequiredArgs \ supplied)
    ELSE Ok([a \in ArgNames |->
                CASE a \notin supplied -> None
                  [] a = "source" -> Lower(source)
                  [] a = "cloud_provider_name" -> "aws"
                  [] OTHER -> Supplied(a)])

\* check_cond_mandatory_arg: raises for the first argument of the list that
\* is None.
check_cond_mandatory_arg(parsed, mandatory_args) ==
    LET unset == {i \in 1..Len(mandatory_args) : parsed[mandatory_args[i]] = None}
    IN IF unset = {} THEN Ok(parsed)
       ELSE Raise("please_provide",
                  {mandatory_args[CHOOSE i \in unset : \A j \in unset : i <= j]})

process_arguments(supplied, source) ==
    LET parsed == ParseArgs(supplied, source) IN
    IF parsed.status = "error" THEN parsed
    ELSE IF parsed.value["source"] = "eventhub"
    THEN check_cond_mandatory_arg(parsed.value, EventhubMandatoryArgs)
    ELSE IF parsed.value["source"] = "kafka"
    THEN check_cond_mandatory_arg(parsed.value, KafkaMandatoryArgs)
    ELSE parsed

\* The values --source is given on the command lines of the model.
SourceValues == {"cloudfiles", "eventhub", "kafka", "EventHub", "KAFKA", "delta"}

ProcessArguments(supplied, source) ==
    /\ op = "none" /\ pc = "call"
    /\ op' = "process_arguments"
    /\ pc' = "done"
    /\ args' = [supplied |-> supplied, source |-> source]
    /\ result' = process_arguments(supplied, source)
    /\ UNCHANGED <<conf, table, secretCalls>>
    /\ UNCHANGED orchestratorVars

NextArguments ==
    /\ pc = "call"
    /\ \E supplied \in SUBSET ArgNames, source \in SourceValues :
           ("source" \in supplied \/ source = "cloudfiles")
               /\ ProcessArguments(supplied, source)

SpecArguments == InitCall /\ [][NextArguments]_vars

\* A call of process_arguments whose command line the parser accepted, with
\* the given source.
ParsedWithSource(source) ==
    /\ op = "process_arguments" /\ pc = "done"
    /\ RequiredArgs \subseteq args.supplied
    /\ Lower(args.source) = source

\* The outcome the claim gives a command line for the fields, in their
\* order, that its source requires.
FirstNotSuppliedNamed(fields) ==
    LET unset == {i \in 1..Len(fields) : fields[i] \notin args.supplied} IN
    IF unset = {} THEN result.status = "ok"
    ELSE /\ result.status = "error"
         /\ result.kind = "please_provide"
         /\ \E i \in unset : /\ \A j \in unset : i <= j
                              /\ result.names = {fields[i]}

\* C13: with source eventhub process_arguments fails naming the first field
\* not supplied, in the order eventhub_name, eventhub_name_append_flow,
\* eventhub_producer_accesskey_name, eventhub_consumer_accesskey_name,
\* eventhub_secrets_scope_name, eventhub_namespace, eventhub_port, and
\* succeeds when all seven are supplied; with source kafka the same holds of
\* kafka_topic_name, kafka_broker; with source cloudfiles it succeeds.
C13_ConditionalArguments ==
    /\ ParsedWithSource("eventhub") =>
           FirstNotSuppliedNamed(<<"eventhub_name", "eventhub_name_append_flow",
                                   "eventhub_producer_accesskey_name",
                                   "eventhub_consumer_accesskey_name",
                                   "eventhub_secrets_scope_name",
                                   "eventhub_namespace", "eventhub_port">>)
    /\ ParsedWithSource("kafka") =>
           FirstNotSuppliedNamed(<<"kafka_topic_name", "kafka_broker">>)
    /\ ParsedWithSource("cloudfiles") => result.status = "ok"

\* C13 witness: with source eventhub and, of the seven fields, neither
\* eventhub_consumer_accesskey_name nor eventhub_port supplied, the call
\* failed naming eventhub_consumer_accesskey_name.
C13_Witness ==
    /\ ParsedWithSource("eventhub")
    /\ {"eventhub_name", "eventhub_name_append_flow", "eventhub_producer_accesskey_name",
        "eventhub_consumer_accesskey_name", "eventhub_secrets_scope_name",
        "eventhub_namespace", "eventhub_port"} \ args.supplied
           = {"eventhub_consumer_accesskey_name", "eventhub_port"}
    /\ result.status = "error"
    /\ result.names = {"eventhub_consumer_accesskey_name"}

-----------------------------------------------------------------------------
(* DLTMETARunner: main, init_runner_conf and run, as two processes         *)

Procs == {1, 2}

\* uuid.uuid4().hex: the run ids the two processes may draw.
RunIds == {"3fa9", "b07c"}

\* The working directories a process may be started in.
Cwds == {"/checkout_a", "/checkout_b"}

Username == "it_user"
Catalog == "main"

\* The files of a checkout: the onboarding templates and the test data.
TemplateFiles ==
    {"integration_tests/conf/cloudfiles-onboarding.template",
     "integration_tests/conf/cloudfiles-onboarding_A2.template",
     "integration_tests/conf/eventhub-onboarding.template",
     "integration_tests/conf/kafka-onboarding.template"}
ResourceFiles ==
    {"integration_tests/resources/data/input.csv",
     "integration_tests/resources/dqe/rules.json"}

\* The files os.walk may list in integration_tests/conf, in listing order.
ConfListing ==
    <<"integration_tests/conf/cloudfiles-onboarding.template",
      "integration_tests/conf/cloudfiles-onboarding_A2.template",
      "integration_tests/conf/eventhub-onboarding.template",
      "integration_tests/conf/kafka-onboarding.template",
      "integration_tests/conf/onboarding.json",
      "integration_tests/conf/onboarding_A2.json">>

\* The runner_conf of a process that has not built one.
NoConf == [run_id |-> None]

SchemaNameWithoutRunId(prefix, run_id) == prefix

\* f"{prefix}{run_id}"
SchemaName(prefix, run_id) == prefix \o run_id

\* The DLTMetaRunnerConf that init_runner_conf builds: the fields it passes
\* and the defaults of the dataclass (eventhub_template is the text of a
\* one-element tuple: its default ends in a comma).
init_runner_conf(run_id, username, uc_catalog_name, source) ==
    [run_id |-> run_id,
     username |-> username,
     uc_catalog_name |-> uc_catalog_name,
     uc_volume_name |-> "dlt_meta_files",
     onboarding_file_path |-> "integration_tests/conf/onboarding.json",
     onboarding_A2_file_path |-> "integration_tests/conf/onboarding_A2.json",
     int_tests_dir |-> "integration_tests",
     dlt_meta_schema |-> SchemaName("dlt_meta_dataflowspecs_it_", run_id),
     bronze_schema |-> SchemaName("dlt_meta_bronze_it_", run_id),
     silver_schema |-> SchemaName("dlt_meta_silver_it_", run_id),
     runners_nb_path |-> "/Users/" \o username \o "/dlt_meta_int_tests/" \o run_id,
     source |-> source,
     cloudfiles_template |-> "integration_tests/conf/cloudfiles-onboarding.template",
     cloudfiles_A2_template |-> "integration_tests/conf/cloudfiles-onboarding_A2.template",
     eventhub_template |-> "('integration_tests/conf/eventhub-onboarding.template',)",
     kafka_template |-> "integration_tests/conf/kafka-onboarding.template",
     uc_volume_path |-> None,
     remote_whl_path |-> None,
     bronze_pipeline_id |-> None,
     bronze_pipeline_A2_id |-> None,
     silver_pipeline_id |-> None,
     cluster_id |-> None,
     job_id |-> None,
     test_output_file_path |->
         "/Users/" \o username \o "/dlt_meta_int_tests/" \o run_id
             \o "/integration-test-output.csv"]

Resource(kind, name) == [kind |-> kind, name |-> name]

\* What a file holds of the run that generated it; NoContent for a file no
\* run generated.
NoContent ==
    [source |-> None, run_id |-> None, uc_volume_path |-> None,
     bronze_schema |-> None, silver_schema |-> None]
ContentOf(c) ==
    [source |-> c.source, run_id |-> c.run_id, uc_volume_path |-> c.uc_volume_path,
     bronze_schema |-> c.bronze_schema, silver_schema |-> c.silver_schema]
Wrote(p, r) ==
    [by |-> p, kind |-> r.kind, name |-> r.name,
     content |-> IF "content" \in DOMAIN r THEN r.content ELSE NoContent]

EndsWith(s, t) == Len(s) >= Len(t) /\ SubSeq(s, Len(s) - Len(t) + 1, Len(s)) = t

\* runner with process p at position at and with runner_conf c.
At(p, at, c) == [runner EXCEPT ![p] = [pc |-> at, cwd |-> runner[p].cwd, conf |-> c]]

\* open(path, "w") and json.dump by process p in its directory.
WriteLocal(files, p, path) ==
    [k \in DOMAIN files \cup {<<runner[p].cwd, path>>} |->
        IF k = <<runner[p].cwd, path>>
        THEN ContentOf(runner[p].conf)
        ELSE files[k]]
LocalFile(p, path) == Resource("local_file", runner[p].cwd \o "/" \o path)

\* main up to the call of run: the arguments are parsed and init_runner_conf
\* draws a run id.
InitRunnerConf(p) ==
    /\ runner[p].pc = "main"
    /\ \E run_id \in RunIds, source \in SourceChoices :
           runner' = At(p, "initialize_uc_resources",
                        init_runner_conf(run_id, Username, Catalog, source))
    /\ UNCHANGED <<platform, localFiles, written>>

\* initialize_uc_resources: the schemas and the volume are created in turn;
\* a create raises for a name the catalog holds.
InitializeUcResources(p) ==
    /\ runner[p].pc = "initialize_uc_resources"
    /\ LET c == runner[p].conf
           schema(name) == Resource("schema", c.uc_catalog_name \o "." \o name)
           todo == <<schema(c.dlt_meta_schema), schema(c.bronze_schema)>>
                   \o (IF c.source = "cloudfiles" THEN <<schema(c.silver_schema)>> ELSE <<>>)
                   \o <<Resource("volume", c.uc_catalog_name \o "." \o c.dlt_meta_schema
                                               \o "." \o c.uc_volume_name)>>
           clash == {i \in 1..Len(todo) : todo[i] \in platform}
           made == {todo[i] : i \in {j \in 1..Len(todo) : \A k \in clash : j < k}}
       IN /\ platform' = platform \cup made
          /\ written' = written \cup {Wrote(p, r) : r \in made}
          /\ runner' =
                 IF clash # {} THEN At(p, "failed", c)
                 ELSE At(p, "generate_onboarding_file",
                         [c EXCEPT !.uc_volume_path =
                             "/Volumes/" \o c.uc_catalog_name \o "/" \o c.dlt_meta_schema
                                 \o "/" \o c.uc_volume_name \o "/"])
    /\ UNCHANGED localFiles

\* generate_onboarding_file: the onboarding files are written into the
\* process's directory.  create_eventhub_onboarding opens the path
\* eventhub_template holds; create_kafka_onboarding reads dbfs_tmp_path when
\* the kafka template has a dbfs_path placeholder.
GenerateOnboardingFile(p) ==
    /\ runner[p].pc = "generate_onboarding_file"
    /\ LET c == runner[p].conf
           one == WriteLocal(localFiles, p, c.onboarding_file_path)
           two == WriteLocal(one, p, c.onboarding_A2_file_path)
           fail == /\ runner' = At(p, "failed", c)
                   /\ UNCHANGED <<localFiles, written>>
           done(files, paths) ==
                   /\ runner' = At(p, "upload_files_to_databricks", c)
                   /\ localFiles' = files
                   /\ written' = written \cup {Wrote(p, LocalFile(p, f)) : f \in paths}
       IN CASE c.source = "cloudfiles" ->
                   done(two, {c.onboarding_file_path, c.onboarding_A2_file_path})
            [] c.source = "eventhub" ->
                   IF c.eventhub_template \in TemplateFiles
                   THEN done(one, {c.onboarding_file_path})
                   ELSE fail
            [] c.source = "kafka" ->
                   \E dbfs_path_in_template \in BOOLEAN :
                       IF dbfs_path_in_template /\ "dbfs_tmp_path" \notin DOMAIN c
                       THEN fail
                       ELSE done(one, {c.onboarding_file_path})
    /\ UNCHANGED platform

\* The orders in which os.walk may list the files of the resources tree.
Walks ==
    {w \in [1..Cardinality(ResourceFiles) -> ResourceFiles] :
        {w[i] : i \in DOMAIN w} = ResourceFiles}

\* An upload into the volume, the workspace or the wheel's place.
Upload(kind, name, content) == [kind |-> kind, name |-> name, content |-> content]

UploadCallsWheelFirst(c, cwd, files, walk) ==
    << Upload("file", c.uc_volume_path \o "dlt_meta.whl", NoContent) >>
    \o [i \in 1..Len(walk) |-> Upload("file", c.uc_volume_path \o "/" \o walk[i], NoContent)]
    \o << Upload("directory", c.runners_nb_path \o "/runners", NoContent) >>

\* upload_files_to_databricks: the calls of the platform it makes, in their
\* order: every file of the resources tree; the files of the conf directory
\* when the name the first loop left in `file` ends in json (the test of
\* line 787 stands outside the loop over the directory's files); the
\* notebook directory and the source's notebook; the wheel.
UploadCalls(c, cwd, files, walk) ==
    LET file == walk[Len(walk)]
        in_conf(f) == f \in TemplateFiles \/ <<cwd, f>> \in DOMAIN files
        content(f) == IF <<cwd, f>> \in DOMAIN files THEN files[<<cwd, f>>] ELSE NoContent
        listed == SelectSeq(ConfListing, in_conf)
    IN [i \in 1..Len(walk) |-> Upload("file", c.uc_volume_path \o "/" \o walk[i], NoContent)]
       \o (IF EndsWith(file, "json")
           THEN [i \in 1..Len(listed) |->
                    Upload("file", c.uc_volume_path \o "/" \o listed[i], content(listed[i]))]
           ELSE <<>>)
       \o << Upload("directory", c.runners_nb_path \o "/runners", NoContent),
             Upload("notebook", c.runners_nb_path \o "/runners/" \o c.source \o "_runner.py",
                    NoContent),
             Upload("file", c.uc_volume_path \o "dlt_meta.whl", NoContent) >>

\* upload_files_to_databricks: the first n calls succeed; the next one, if
\* there is one, raises and ends the process.  remote_whl_path is assigned
\* from the answer of the last call.
UploadFilesToDatabricks(p) ==
    /\ runner[p].pc = "upload_files_to_databricks"
    /\ \E walk \in Walks :
         LET c == runner[p].conf
             calls == UploadCalls(c, runner[p].cwd, localFiles, walk)
         IN \E n \in 0..Len(calls) :
              LET made == {calls[i] : i \in 1..n}
              IN /\ platform' = platform \cup {Resource(r.kind, r.name) : r \in made}
                 /\ written' = written \cup {Wrote(p, r) : r \in made}
                 /\ runner' = IF n < Len(calls) THEN At(p, "failed", c)
                              ELSE At(p, "exit",
                                      [c EXCEPT !.remote_whl_path = calls[Len(calls)].name])
    /\ UNCHANGED localFiles

\* create_bronze_silver_dlt, the statement after exit() in run.
CreateBronzeSilverDlt(p) ==
    /\ runner[p].pc = "exit"
    /\ LET c == runner[p].conf
           made == {Resource("pipeline", "dlt-meta-bronze-" \o c.run_id)}
       IN /\ platform' = platform \cup made
          /\ written' = written \cup {Wrote(p, r) : r \in made}
          /\ runner' = At(p, "launch_workflow",
                          [c EXCEPT !.bronze_pipeline_id = "dlt-meta-bronze-" \o c.run_id])
    /\ UNCHANGED localFiles

\* exit() in run: the process ends.
Exit(p) ==
    /\ runner[p].pc = "exit"
    /\ runner' = At(p, "exited", runner[p].conf)
    /\ UNCHANGED <<platform, localFiles, written>>

InitRun ==
    /\ op = "run" /\ pc = "call"
    /\ conf = << >>
    /\ table = {}
    /\ args = NoArgs
    /\ result = NoResult
    /\ secretCalls = <<>>
    /\ runner \in [Procs -> {[pc |-> "main", cwd |-> d, conf |-> NoConf] : d \in Cwds}]
    /\ platform = {}
    /\ localFiles = << >>
    /\ written = {}

NextRun ==
    /\ \E p \in Procs :
           \/ InitRunnerConf(p)
           \/ InitializeUcResources(p)
           \/ GenerateOnboardingFile(p)
           \/ UploadFilesToDatabricks(p)
           \/ Exit(p)
    /\ UNCHANGED <<op, pc, conf, table, args, result, secretCalls>>

SpecRun == InitRun /\ [][NextRun]_vars

\* The process has ended: by exit() or by an exception nothing catches.
Ended(p) == runner[p].pc \in {"exited", "failed"}

\* What process p created or wrote in the workspace.
MadeBy(p) == {Resource(w.kind, w.name) : w \in {v \in written : v.by = p /\ v.kind # "local_file"}}

\* C14: a process whose upload of the artifacts has completed ends as its
\* next step; no pipeline, job or cluster is ever created, no results file
\* downloaded and nothing ever deleted, so that the schemas, the volume and
\* the files a run created exist when its process has ended.
C14_RunEndsAfterUpload ==
    /\ [](\A r \in platform : r.kind \in {"schema", "volume", "file", "directory", "notebook"})
    /\ [](\A w \in written : w.kind = "local_file" =>
              \E p \in Procs, f \in {"integration_tests/conf/onboarding.json",
                                     "integration_tests/conf/onboarding_A2.json"} :
                  w.name = runner[p].cwd \o "/" \o f)
    /\ [](\A p \in Procs : Ended(p) => MadeBy(p) \subseteq platform)
    /\ [][/\ platform \subseteq platform'
          /\ \A p \in Procs :
                /\ (runner[p].pc = "exit" /\ runner'[p] # runner[p]) =>
                       (runner'[p].pc = "exited" /\ platform' = platform)
                /\ Ended(p) => runner'[p] = runner[p]]_vars

\* C14 witness: a file-drop run has ended by exit() with its three schemas,
\* its volume and its uploaded files in the workspace.
C14_Witness ==
    \E p \in Procs :
        /\ runner[p].pc = "exited"
        /\ runner[p].conf.source = "cloudfiles"
        /\ Cardinality({r \in MadeBy(p) : r.kind = "schema"}) = 3
        /\ \E r \in MadeBy(p) : r.kind = "volume"
        /\ \E r \in MadeBy(p) : r.kind = "file"
        /\ MadeBy(p) \subseteq platform

\* The process has a runner_conf.
HasConf(p) == runner[p].conf.run_id # None

\* The names a runner_conf gives its run: the three schema names, the volume
\* path once the volume is created, the notebook path, the results file path.
RunNames(c) ==
    {c.dlt_meta_schema, c.bronze_schema, c.silver_schema, c.runners_nb_path,
     c.test_output_file_path} \cup (IF c.uc_volume_path = None THEN {} ELSE {c.uc_volume_path})

\* C15: the runner_confs of two runs with different run ids (same user and
\* catalog) share none of their schema names, volume path, notebook path
\* and results file path, and each schema name of a run ends with its run id.
C15_RunNamesDiffer ==
    /\ \A p \in Procs, q \in Procs :
           (HasConf(p) /\ HasConf(q) /\ runner[p].conf.run_id # runner[q].conf.run_id) =>
               RunNames(runner[p].conf) \cap RunNames(runner[q].conf) = {}
    /\ \A p \in Procs :
           HasConf(p) =>
               /\ EndsWith(runner[p].conf.dlt_meta_schema, runner[p].conf.run_id)
               /\ EndsWith(runner[p].conf.bronze_schema, runner[p].conf.run_id)
               /\ EndsWith(runner[p].conf.silver_schema, runner[p].conf.run_id)

\* C15 witness: two runs with different run ids have both created their
\* volume, so that each runner_conf holds all six names.
C15_Witness ==
    /\ \A p \in Procs : HasConf(p) /\ runner[p].conf.uc_volume_path # None
    /\ runner[1].conf.run_id # runner[2].conf.run_id
    /\ Cardinality(RunNames(runner[1].conf) \cup RunNames(runner[2].conf)) = 12

\* C16: of two runs with different run ids, in any interleaving of their
\* steps, none creates or writes a resource or file (schema, volume, volume
\* file, notebook directory, generated onboarding file, results file) that
\* the other creates or writes.
C16_RunsShareNothing ==
    \A v \in written, w \in written :
        (HasConf(v.by) /\ HasConf(w.by)
            /\ runner[v.by].conf.run_id # runner[w.by].conf.run_id) =>
            ~(v.kind = w.kind /\ v.name = w.name)

\* The steps of run in their order: each position of a process and the
\* positions that may follow it.
LifecycleSteps ==
    {<<"main", "initialize_uc_resources">>,
     <<"initialize_uc_resources", "generate_onboarding_file">>,
     <<"initialize_uc_resources", "failed">>,
     <<"generate_onboarding_file", "upload_files_to_databricks">>,
     <<"generate_onboarding_file", "failed">>,
     <<"upload_files_to_databricks", "exit">>,
     <<"upload_files_to_databricks", "failed">>,
     <<"exit", "exited">>}

\* What process p uploaded: of a kind, and under a directory of its volume.
Uploaded(p, kind) == {r \in MadeBy(p) : r.kind = kind}
UploadedUnder(p, dir) ==
    {f \in ResourceFiles \cup {ConfListing[i] : i \in DOMAIN ConfListing} :
        /\ SubSeq(f, 1, Len(dir)) = dir
        /\ Resource("file", runner[p].conf.uc_volume_path \o "/" \o f) \in MadeBy(p)}
WheelUploaded(p) ==
    Resource("file", runner[p].conf.uc_volume_path \o "dlt_meta.whl") \in MadeBy(p)

\* C22: a run passes from the built runner_conf to the created catalog
\* resources, to the generated onboarding file, to the uploaded artifacts,
\* in this order; a position is entered only when the step before it
\* completed; within the upload the resource files come first, then the
\* configuration files, then the notebooks, then the wheel, and
\* remote_whl_path is set only when every upload succeeded; a process that
\* failed takes no further step.
C22_RunLifecycleOrder ==
    /\ [][\A p \in Procs :
             /\ runner'[p].pc # runner[p].pc =>
                    <<runner[p].pc, runner'[p].pc>> \in LifecycleSteps
             /\ Ended(p) => (runner'[p] = runner[p] /\ MadeBy(p)' = MadeBy(p))]_vars
    /\ [](\A p \in Procs :
             LET c == runner[p].conf
                 at == runner[p].pc
                 conf_dir == "integration_tests/conf"
             IN /\ at \in {"generate_onboarding_file", "upload_files_to_databricks",
                            "exit", "exited"} =>
                       /\ c.uc_volume_path # None
                       /\ Cardinality(Uploaded(p, "schema")) =
                              (IF c.source = "cloudfiles" THEN 3 ELSE 2)
                       /\ Cardinality(Uploaded(p, "volume")) = 1
                /\ at \in {"upload_files_to_databricks", "exit", "exited"} =>
                       \E w \in written :
                           /\ w.by = p /\ w.kind = "local_file"
                           /\ w.name = runner[p].cwd \o "/" \o c.onboarding_file_path
                /\ HasConf(p) => (at \in {"exit", "exited"} <=> c.remote_whl_path # None)
                /\ (HasConf(p) /\ c.uc_volume_path # None) =>
                       /\ c.remote_whl_path # None => WheelUploaded(p)
                       /\ WheelUploaded(p) => Uploaded(p, "notebook") # {}
                       /\ Uploaded(p, "notebook") # {} => Uploaded(p, "directory") # {}
                       /\ Uploaded(p, "directory") # {} =>
                              \/ UploadedUnder(p, conf_dir) = {}
                              \/ TemplateFiles \cup {c.onboarding_file_path}
                                     \subseteq UploadedUnder(p, conf_dir)
                       /\ (Uploaded(p, "directory") # {} \/ UploadedUnder(p, conf_dir) # {}) =>
                              UploadedUnder(p, "integration_tests/resources") = ResourceFiles)

\* C22 witness: one run has uploaded everything and ended by exit(), the
\* other failed within the upload after its notebook directory was made, and
\* its remote_whl_path is not set.
C22_Witness ==
    \E p \in Procs, q \in Procs :
        /\ runner[p].pc = "exited" /\ WheelUploaded(p)
        /\ UploadedUnder(p, "integration_tests/conf") # {}
        /\ runner[q].pc = "failed" /\ runner[q].conf.uc_volume_path # None
        /\ Uploaded(q, "directory") # {} /\ ~WheelUploaded(q)
        /\ runner[q].conf.remote_whl_path = None

\* C23: when the upload of a run has completed, a file of its local conf
\* directory is in the volume if and only if the file's own name ends in
\* json, and every file of the resources tree is in the volume, each at the
\* volume path followed by its local path.
C23_JsonConfFilesUploaded ==
    \A p \in Procs :
        runner[p].pc \in {"exit", "exited"} =>
            /\ UploadedUnder(p, "integration_tests/resources") = ResourceFiles
            /\ \A f \in TemplateFiles \cup {runner[p].conf.onboarding_file_path} :
                   f \in UploadedUnder(p, "integration_tests/conf") <=> EndsWith(f, "json")

\* C30: in every interleaving of two file-drop runs started from the same
\* working directory with different run ids, the onboarding file a run
\* uploads to its own volume holds that run's own volume path and bronze and
\* silver schema names, and none of the other run's.
C30_UploadedOnboardingIsOwn ==
    (/\ \A p \in Procs : HasConf(p) /\ runner[p].conf.source = "cloudfiles"
     /\ runner[1].cwd = runner[2].cwd
     /\ runner[1].conf.run_id # runner[2].conf.run_id) =>
        \A w \in written :
            LET c == runner[w.by].conf
            IN (/\ w.kind = "file"
                /\ c.uc_volume_path # None
                /\ w.name \in {c.uc_volume_path \o "/" \o c.onboarding_file_path,
                                c.uc_volume_path \o "/" \o c.onboarding_A2_file_path}) =>
                   /\ w.content.uc_volume_path = c.uc_volume_path
                   /\ w.content.bronze_schema = c.bronze_schema
                   /\ w.content.silver_schema = c.silver_schema

-----------------------------------------------------------------------------
(* DLTMETARunner.create_dlt_meta_pipeline                                  *)

\* What ws.pipelines.create may answer: a handle with the pipeline's id, no
\* handle, or an error of the platform.
PipelineResponses ==
    {[outcome |-> "handle", pipeline_id |-> "pipeline-0001"],
     [outcome |-> "none", pipeline_id |-> None],
     [outcome |-> "error", pipeline_id |-> None]}

\* The values of --uc_catalog_name: a catalog, the empty string; None when
\* the runner_conf is built without one.
CatalogNames == {Catalog, "", None}

DataflowspecTableAlwaysQualified(layer, runner_conf) ==
    runner_conf.uc_catalog_name \o "." \o runner_conf.dlt_meta_schema
        \o "." \o layer \o "_dataflowspec_cdc"

\* The value of configuration[f"{layer}.dataflowspecTable"].
DataflowspecTable(layer, runner_conf) ==
    IF Truthy(runner_conf.uc_catalog_name)
    THEN runner_conf.uc_catalog_name \o "." \o runner_conf.dlt_meta_schema
             \o "." \o layer \o "_dataflowspec_cdc"
    ELSE runner_conf.dlt_meta_schema \o "." \o layer \o "_dataflowspec_cdc"

\* create_dlt_meta_pipeline: its outcome, and the pipelines.create call it
\* made, when the platform answers with response.
create_dlt_meta_pipeline(pipeline_name, layer, group, target_schema, runner_conf, response) ==
    LET configuration ==
            [k \in {"layer", GroupKey(layer), "dlt_meta_whl", TableKey(layer)} |->
                CASE k = "layer" -> layer
                  [] k = GroupKey(layer) -> group
                  [] k = "dlt_meta_whl" -> runner_conf.remote_whl_path
                  [] OTHER -> DataflowspecTable(layer, runner_conf)]
        call == [kind |-> "pipelines.create",
                 name |-> pipeline_name,
                 catalog |-> IF Truthy(runner_conf.uc_catalog_name)
                             THEN runner_conf.uc_catalog_name ELSE None,
                 channel |-> IF Truthy(runner_conf.uc_catalog_name) THEN None ELSE "PREVIEW",
                 serverless |-> TRUE,
                 configuration |-> configuration,
                 notebook |-> runner_conf.runners_nb_path \o "/runners/init_dlt_meta_pipeline",
                 target |-> target_schema]
    IN Step(CASE response.outcome = "error" -> Raise("platform_error", {})
              [] response.outcome = "none" -> Raise("pipeline_creation_failed", {})
              [] OTHER -> Ok(response.pipeline_id),
            {call})

CreateDltMetaPipeline(pipeline_name, layer, group, target_schema, runner_conf, response) ==
    /\ op = "none" /\ pc = "call"
    /\ op' = "create_dlt_meta_pipeline"
    /\ pc' = "done"
    /\ args' = [pipeline_name |-> pipeline_name, layer |-> layer, group |-> group,
                target_schema |-> target_schema, runner_conf |-> runner_conf,
                response |-> response]
    /\ LET step == create_dlt_meta_pipeline(pipeline_name, layer, group, target_schema,
                                            runner_conf, response)
       IN /\ result' = step.out
          /\ platform' = platform \cup step.calls
    /\ UNCHANGED <<conf, table, secretCalls, runner, localFiles, written>>

\* The runner_confs init_runner_conf builds, before and after the wheel is
\* uploaded.
RunnerConfs ==
    { [init_runner_conf(run_id, Username, catalog, source)
          EXCEPT !.remote_whl_path = whl] :
        run_id \in RunIds, catalog \in CatalogNames, source \in SourceChoices,
        whl \in {None, "/Volumes/main/dlt_meta_files/dlt_meta.whl"} }

\* The calls create_bronze_silver_dlt makes.
NextPipeline ==
    /\ pc = "call"
    /\ \E runner_conf \in RunnerConfs, response \in PipelineResponses :
           \/ \E group \in Groups :
                  CreateDltMetaPipeline("dlt-meta-bronze-" \o runner_conf.run_id, "bronze",
                                        group, runner_conf.bronze_schema, runner_conf, response)
           \/ CreateDltMetaPipeline("dlt-meta-silver-" \o runner_conf.run_id, "silver",
                                    "A1", runner_conf.silver_schema, runner_conf, response)

SpecPipeline == InitCall /\ [][NextPipeline]_vars

CreatePipelineDone == op = "create_dlt_meta_pipeline" /\ pc = "done"

\* C17: the configuration create_dlt_meta_pipeline passes to the platform
\* holds layer, "<layer>.group" = the group, the wheel path and
\* "<layer>.dataflowspecTable" = "<catalog>.<spec schema>.<layer>_dataflowspec_cdc"
\* with a catalog configured, "<spec schema>.<layer>_dataflowspec_cdc" without;
\* the call fails with the pipeline-creation error exactly when the platform
\* returned no handle, and returns the pipeline's id when it returned one.
C17_PipelineConfiguration ==
    CreatePipelineDone =>
        LET c == args.runner_conf
            layer == args.layer
        IN /\ \E call \in platform :
                  /\ platform = {call}
                  /\ DOMAIN call.configuration =
                         {"layer", layer \o ".group", "dlt_meta_whl", layer \o ".dataflowspecTable"}
                  /\ call.configuration["layer"] = layer
                  /\ call.configuration[layer \o ".group"] = args.group
                  /\ call.configuration["dlt_meta_whl"] = c.remote_whl_path
                  /\ call.configuration[layer \o ".dataflowspecTable"] =
                         IF c.uc_catalog_name \in {None, ""}
                         THEN c.dlt_meta_schema \o "." \o layer \o "_dataflowspec_cdc"
                         ELSE c.uc_catalog_name \o "." \o c.dlt_meta_schema \o "."
                                  \o layer \o "_dataflowspec_cdc"
           /\ (result.status = "error" /\ result.kind = "pipeline_creation_failed")
                  <=> args.response.outcome = "none"
           /\ args.response.outcome = "handle" => result = Ok(args.response.pipeline_id)

\* C17 witness: without a catalog, a silver pipeline was created and its id
\* returned.
C17_Witness ==
    /\ CreatePipelineDone
    /\ args.layer = "silver"
    /\ args.runner_conf.uc_catalog_name = ""
    /\ result = Ok("pipeline-0001")
    /\ \E call \in platform : call.configuration["silver.group"] = "A1"

-----------------------------------------------------------------------------
(* DLTMETARunner.create_cloudfiles_onboarding                              *)

MaxValues == 2

\* A string of a template is the sequence of its pieces: literal text and
\* brace-delimited placeholder tokens.  The strings of the templates: paths
\* under the volume, catalog-qualified schemas, plain text, a token twice,
\* and a name with the run id.
TemplateValues ==
    { <<"{uc_volume_path}", "/integration_tests/resources/data/customers">>,
      <<"{uc_catalog_name}", ".", "{bronze_schema}">>,
      <<"{uc_catalog_name}", ".", "{silver_schema}">>,
      <<"customers">>,
      <<"{uc_volume_path}", "/demo", "{uc_volume_path}">>,
      <<"bronze_it_", "{run_id}">> }

\* The text of a template file: a JSON list of strings, or no JSON.
Templates == { Serialized(l) : l \in SeqsUpTo(TemplateValues, MaxValues) } \cup {Malformed}

StringSubsWithoutSilver(runner_conf) ==
    << <<"{uc_volume_path}", runner_conf.uc_volume_path>>,
       <<"{uc_catalog_name}", runner_conf.uc_catalog_name>>,
       <<"{bronze_schema}", runner_conf.bronze_schema>> >>

\* string_subs, in the order of its items.
string_subs(runner_conf) ==
    << <<"{uc_volume_path}", runner_conf.uc_volume_path>>,
       <<"{uc_catalog_name}", runner_conf.uc_catalog_name>>,
       <<"{bronze_schema}", runner_conf.bronze_schema>>,
       <<"{silver_schema}", runner_conf.silver_schema>> >>

\* text.replace(key, val)
Replace(text, key, val) ==
    IF ~text.json THEN text
    ELSE Serialized([i \in DOMAIN text.doc |->
                        [j \in DOMAIN text.doc[i] |->
                            IF text.doc[i][j] = key THEN val ELSE text.doc[i][j]]])

\* The loop over string_subs.items() from item i on.
RECURSIVE ReplaceFrom(_, _, _)
ReplaceFrom(text, subs, i) ==
    IF i > Len(subs) THEN text
    ELSE ReplaceFrom(Replace(text, subs[i][1], subs[i][2]), subs, i + 1)

\* create_cloudfiles_onboarding: its outcome and the local files after it.
\* A template that is no JSON makes json.loads raise: the first one before
\* anything is written, the second after the first file is written.
create_cloudfiles_onboarding(runner_conf, template, template_a2, cwd, files) ==
    LET onboard_json == ReplaceFrom(template, string_subs(runner_conf), 1)
        onboard_json_a2 == ReplaceFrom(template_a2, string_subs(runner_conf), 1)
        write(fs, path, doc) ==
            [k \in DOMAIN fs \cup {<<cwd, path>>} |->
                IF k = <<cwd, path>> THEN doc ELSE fs[k]]
        one == write(files, runner_conf.onboarding_file_path, JsonLoads(onboard_json).value)
    IN IF JsonLoads(onboard_json).status = "error"
       THEN Step(JsonLoads(onboard_json), files)
       ELSE IF JsonLoads(onboard_json_a2).status = "error"
       THEN Step(JsonLoads(onboard_json_a2), one)
       ELSE Step(Ok(None),
                 write(one, runner_conf.onboarding_A2_file_path,
                       JsonLoads(onboard_json_a2).value))

CreateCloudfilesOnboarding(runner_conf, template, template_a2) ==
    /\ op = "none" /\ pc = "call"
    /\ op' = "create_cloudfiles_onboarding"
    /\ pc' = "done"
    /\ args' = [runner_conf |-> runner_conf, template |-> template,
                template_a2 |-> template_a2]
    /\ LET step == create_cloudfiles_onboarding(runner_conf, template, template_a2,
                                                "/checkout_a", localFiles)
       IN /\ result' = step.out
          /\ localFiles' = step.calls
    /\ UNCHANGED <<conf, table, secretCalls, runner, platform, written>>

\* The runner_confs of file-drop runs once initialize_uc_resources has set
\* the volume path.
CloudfilesConfs ==
    { [c EXCEPT !.uc_volume_path =
           "/Volumes/" \o c.uc_catalog_name \o "/" \o c.dlt_meta_schema \o "/"
               \o c.uc_volume_name \o "/"] :
        c \in {r \in RunnerConfs : /\ r.source = "cloudfiles"
                                   /\ r.uc_catalog_name = Catalog
                                   /\ r.remote_whl_path = None} }

NextOnboarding ==
    /\ pc = "call"
    /\ \E runner_conf \in CloudfilesConfs, template \in Templates, template_a2 \in Templates :
           CreateCloudfilesOnboarding(runner_conf, template, template_a2)

SpecOnboarding == InitCall /\ [][NextOnboarding]_vars

\* A call of create_cloudfiles_onboarding that returned.
OnboardingReturned ==
    op = "create_cloudfiles_onboarding" /\ pc = "done" /\ result.status = "ok"

\* The generated files of the call with the templates they were made from.
Generated ==
    { [template |-> args.template.doc,
       file |-> localFiles[<<"/checkout_a", "integration_tests/conf/onboarding.json">>]],
      [template |-> args.template_a2.doc,
       file |-> localFiles[<<"/checkout_a", "integration_tests/conf/onboarding_A2.json">>]] }

\* The value the run has for one of the four placeholders.
RunValue(token) ==
    CASE token = "{uc_volume_path}" -> args.runner_conf.uc_volume_path
      [] token = "{uc_catalog_name}" -> args.runner_conf.uc_catalog_name
      [] token = "{bronze_schema}" -> args.runner_conf.bronze_schema
      [] token = "{silver_schema}" -> args.runner_conf.silver_schema

FourPlaceholders ==
    {"{uc_volume_path}", "{uc_catalog_name}", "{bronze_schema}", "{silver_schema}"}

\* The brace-delimited tokens the templates of the repository use.
PlaceholderTokens == FourPlaceholders \cup {"{run_id}", "{dbfs_path}", "{kafka_topic}"}

\* In a generated file every occurrence of the four placeholders holds the
\* run's value and every other piece of the template is as it was.
Substituted(g) ==
    /\ DOMAIN g.file = DOMAIN g.template
    /\ \A i \in DOMAIN g.template :
           /\ DOMAIN g.file[i] = DOMAIN g.template[i]
           /\ \A j \in DOMAIN g.template[i] :
                  g.file[i][j] = IF g.template[i][j] \in FourPlaceholders
                                 THEN RunValue(g.template[i][j])
                                 ELSE g.template[i][j]

-----------------------------------------------------------------------------
(* DLTMETARunner.clean_up                                                  *)

\* The three schemas of a run, by their full names.
TestSchemas(c) ==
    << c.uc_catalog_name \o "." \o c.dlt_meta_schema,
       c.uc_catalog_name \o "." \o c.bronze_schema,
       c.uc_catalog_name \o "." \o c.silver_schema >>

\* What volumes.list and tables.list give for a schema of the workspace.
VolumesIn(existing, schema) ==
    {r \in existing : r.kind = "volume" /\ r.name = schema \o ".dlt_meta_files"}
TablesIn(existing, schema) ==
    {r \in existing : r.kind = "table" /\ r.name = schema \o ".customers"}

\* The elements of a set of at most one element, as a sequence.
AsSeq(S) == IF S = {} THEN <<>> ELSE <<CHOOSE r \in S : TRUE>>

\* clean_up: its outcome and the deletions it made, in their order.  Reading
\* an attribute the runner_conf does not have raises AttributeError.
clean_up(runner_conf, existing) ==
    LET handles == << Resource("job", runner_conf.job_id),
                      Resource("pipeline", runner_conf.bronze_pipeline_id),
                      Resource("pipeline", runner_conf.silver_pipeline_id),
                      Resource("cluster", runner_conf.cluster_id) >>
        first == SelectSeq(handles, LAMBDA r : Truthy(r.name))
        present == SelectSeq(TestSchemas(runner_conf),
                             LAMBDA n : Resource("schema", n) \in existing)
        of(n) == AsSeq(VolumesIn(existing, n)) \o AsSeq(TablesIn(existing, n))
                     \o <<Resource("schema", n)>>
        schemas == IF ~Truthy(runner_conf.uc_catalog_name) THEN <<>>
                   ELSE IF Len(present) = 0 THEN <<>>
                   ELSE IF Len(present) = 1 THEN of(present[1])
                   ELSE IF Len(present) = 2 THEN of(present[1]) \o of(present[2])
                   ELSE of(present[1]) \o of(present[2]) \o of(present[3])
    IN IF "dbfs_tmp_path" \notin DOMAIN runner_conf
       THEN Step(Raise("AttributeError", {"dbfs_tmp_path"}), first)
       ELSE Step(Ok(None),
                 first \o (IF Truthy(runner_conf.dbfs_tmp_path)
                           THEN <<Resource("dbfs", runner_conf.dbfs_tmp_path)>> ELSE <<>>)
                       \o schemas)

CleanUp ==
    /\ op = "none" /\ pc = "call"
    /\ op' = "clean_up"
    /\ pc' = "done"
    /\ result' = clean_up(args.runner_conf, platform)
    /\ platform' = platform \ {clean_up(args.runner_conf, platform).calls[i] :
                                  i \in DOMAIN clean_up(args.runner_conf, platform).calls}
    /\ UNCHANGED <<args, conf, table, secretCalls, runner, localFiles, written>>

\* The handles create_bronze_silver_dlt, create_cluster and launch_workflow
\* may have set in a runner_conf.
WithHandles(c, set) ==
    [c EXCEPT !.job_id = IF "job" \in set THEN "job-1" ELSE None,
              !.bronze_pipeline_id = IF "bronze" \in set THEN "pipeline-b" ELSE None,
              !.bronze_pipeline_A2_id = IF "bronze_A2" \in set THEN "pipeline-b2" ELSE None,
              !.silver_pipeline_id = IF "silver" \in set THEN "pipeline-s" ELSE None,
              !.cluster_id = IF "cluster" \in set THEN "cluster-1" ELSE None]

\* What a run with runner_conf c has in the workspace: the resources of
\* its handles, and of its schemas those of the set kept, each with its
\* volume and a table.
WorkspaceOf(c, kept) ==
    {r \in {Resource("job", c.job_id), Resource("pipeline", c.bronze_pipeline_id),
            Resource("pipeline", c.bronze_pipeline_A2_id),
            Resource("pipeline", c.silver_pipeline_id),
            Resource("cluster", c.cluster_id)} : r.name # None}
    \cup UNION { {Resource("schema", TestSchemas(c)[i]),
                  Resource("volume", TestSchemas(c)[i] \o ".dlt_meta_files"),
                  Resource("table", TestSchemas(c)[i] \o ".customers")} : i \in kept }

InitCleanUp ==
    /\ op = "none" /\ pc = "call"
    /\ conf = << >>
    /\ table = {}
    /\ result = NoResult
    /\ secretCalls = <<>>
    /\ runner = << >>
    /\ localFiles = << >>
    /\ written = {}
    /\ \E c \in {r \in RunnerConfs : r.uc_catalog_name # None /\ r.remote_whl_path # None},
          set \in SUBSET {"job", "bronze", "bronze_A2", "silver", "cluster"},
          kept \in SUBSET (1..3) :
           /\ args = [runner_conf |-> WithHandles(c, set)]
           /\ platform = WorkspaceOf(WithHandles(c, set), kept)

NextCleanUp == CleanUp

SpecCleanUp == InitCleanUp /\ [][NextCleanUp]_vars

CleanUpDone == op = "clean_up" /\ pc = "done"

\* C19: once clean_up has ended, the job, the pipelines and the cluster whose
\* handles were set are deleted and, with a catalog configured, none of the
\* run's three schemas is in the catalog.
C19_CleanUpRemovesSchemas ==
    CleanUpDone =>
        /\ \A r \in {Resource("job", args.runner_conf.job_id),
                      Resource("pipeline", args.runner_conf.bronze_pipeline_id),
                      Resource("pipeline", args.runner_conf.silver_pipeline_id),
                      Resource("cluster", args.runner_conf.cluster_id)} :
               r \notin platform
        /\ Truthy(args.runner_conf.uc_catalog_name) =>
               \A i \in 1..3 :
                   Resource("schema", TestSchemas(args.runner_conf)[i]) \notin platform

-----------------------------------------------------------------------------
(* DLTMETARunner.create_*_workflow_spec and launch_workflow                *)

\* jobs.Task(task_key=..., depends_on=[TaskDependency(task_key=d) ...], ...):
\* runs tells what the task runs, pipeline_id which pipeline.
\* The two onboarding wheel tasks carry environment_key="dl_meta_int_env";
\* the notebook and pipeline tasks carry none.
Task(task_key, depends_on, runs, pipeline_id) ==
    [task_key |-> task_key, depends_on |-> depends_on, runs |-> runs,
     pipeline_id |-> pipeline_id,
     environment_key |-> IF runs \in {"onboard", "onboard_no_overwrite"}
                         THEN "dl_meta_int_env" ELSE None]

\* ws.jobs.create(**keywords): the platform's client takes name,
\* environments and tasks among its parameters and no other keyword of the
\* calls below.
JobsCreate(keywords) ==
    IF DOMAIN keywords \ {"name", "environments", "tasks"} # {}
    THEN Raise("TypeError", DOMAIN keywords \ {"name", "environments", "tasks"})
    ELSE Ok(keywords)

\* from src.__about__ import __version__: the version of the package.
Version == "0.0.9"

\* The list with the one JobEnvironment the three builders build.
dltmeta_environments(runner_conf) ==
    << [environment_key |-> "dl_meta_int_env",
        client |-> "dlt_meta_int_test_" \o Version,
        dependencies |-> <<runner_conf.remote_whl_path>>] >>

create_cloudfiles_workflow_spec(runner_conf) ==
    JobsCreate(
        [name |-> "dlt-meta-" \o runner_conf.run_id,
         environments |-> dltmeta_environments(runner_conf),
         tasks |->
            << Task("setup_dlt_meta_pipeline_spec", <<>>, "onboard", None),
               Task("bronze_dlt_pipeline", <<"setup_dlt_meta_pipeline_spec">>,
                    "pipeline", runner_conf.bronze_pipeline_id),
               Task("onboard_spec_A2", <<"bronze_dlt_pipeline">>, "onboard_no_overwrite", None),
               Task("bronze_A2_dlt_pipeline", <<"onboard_spec_A2">>,
                    "pipeline", runner_conf.bronze_pipeline_A2_id),
               Task("silver_dlt_pipeline", <<"bronze_A2_dlt_pipeline">>,
                    "pipeline", runner_conf.silver_pipeline_id),
               Task("validate_results", <<"silver_dlt_pipeline">>, "validate", None) >>])

\* The tasks of the event-hub and of the kafka job.
StreamingTasks(runner_conf) ==
    << Task("setup_dlt_meta_pipeline_spec", <<>>, "onboard", None),
       Task("publish_events", <<"setup_dlt_meta_pipeline_spec">>, "publish_events", None),
       Task("bronze_dlt_pipeline", <<"publish_events">>,
            "pipeline", runner_conf.bronze_pipeline_id),
       Task("validate_results", <<"bronze_dlt_pipeline">>, "validate", None) >>

create_eventhub_workflow_spec(runner_conf) ==
    JobsCreate([name |-> "dlt-meta-" \o runner_conf.run_id,
                environments |-> dltmeta_environments(runner_conf),
                tasks |-> StreamingTasks(runner_conf)])

\* create_kafka_workflow_spec reads runner_conf.dbfs_tmp_path first and
\* passes the environments under the keyword environemnts.
create_kafka_workflow_spec(runner_conf) ==
    IF "dbfs_tmp_path" \notin DOMAIN runner_conf
    THEN Raise("AttributeError", {"dbfs_tmp_path"})
    ELSE JobsCreate([name |-> "dlt-meta-" \o runner_conf.run_id,
                     environemnts |-> dltmeta_environments(runner_conf),
                     tasks |-> StreamingTasks(runner_conf)])

\* launch_workflow up to the creation of the job.
CreateWorkflowSpec(runner_conf) ==
    /\ op = "none" /\ pc = "call"
    /\ op' = "launch_workflow"
    /\ pc' = "done"
    /\ args' = [runner_conf |-> runner_conf]
    /\ result' = CASE runner_conf.source = "cloudfiles" ->
                          create_cloudfiles_workflow_spec(runner_conf)
                   [] runner_conf.source = "eventhub" ->
                          create_eventhub_workflow_spec(runner_conf)
                   [] runner_conf.source = "kafka" ->
                          create_kafka_workflow_spec(runner_conf)
    /\ UNCHANGED <<conf, table, secretCalls>>
    /\ UNCHANGED orchestratorVars

NextWorkflow ==
    /\ pc = "call"
    /\ \E c \in RunnerConfs, set \in SUBSET {"job", "bronze", "silver", "cluster"} :
           "job" \notin set /\ CreateWorkflowSpec(WithHandles(c, set))

SpecWorkflow == InitCall /\ [][NextWorkflow]_vars

WorkflowDone == op = "launch_workflow" /\ pc = "done"

\* The task keys, in the order of the chain, that the claim gives a source.
ClaimedChain(source) ==
    IF source = "cloudfiles"
    THEN <<"setup_dlt_meta_pipeline_spec", "bronze_dlt_pipeline", "onboard_spec_A2",
           "bronze_A2_dlt_pipeline", "silver_dlt_pipeline", "validate_results">>
    ELSE <<"setup_dlt_meta_pipeline_spec", "publish_events", "bronze_dlt_pipeline",
           "validate_results">>

\* C20: for each source kind a job is built whose tasks form one chain: the
\* first task depends on none and every other task on exactly the task
\* listed before it; file-drop: onboarding, bronze pipeline, A2 onboarding,
\* A2 bronze pipeline, silver pipeline, validation; event-hub and kafka:
\* onboarding, publish events, bronze pipeline, validation.
C20_TasksFormOneChain ==
    WorkflowDone =>
        /\ result.status = "ok"
        /\ LET tasks == result.value.tasks
               chain == ClaimedChain(args.runner_conf.source)
           IN /\ Len(tasks) = Len(chain)
              /\ \A i \in 1..Len(tasks) :
                     /\ tasks[i].task_key = chain[i]
                     /\ tasks[i].depends_on = IF i = 1 THEN <<>> ELSE <<chain[i - 1]>>

\* The tasks of a job that run the onboarding wheel.
OnboardingTasks(tasks) ==
    {i \in 1..Len(tasks) : tasks[i].runs \in {"onboard", "onboard_no_overwrite"}}

\* C21: for each of the three source kinds the builder submits a job that
\* declares, under the attribute environments, exactly one environment whose
\* dependency is the uploaded wheel path and whose client tag embeds the
\* package version, and every onboarding wheel task refers to its key.
C21_OneSharedEnvironment ==
    WorkflowDone =>
        /\ result.status = "ok"
        /\ "environments" \in DOMAIN result.value
        /\ LET envs == result.value.environments
               tasks == result.value.tasks
           IN /\ Len(envs) = 1
              /\ envs[1].dependencies = <<args.runner_conf.remote_whl_path>>
              /\ envs[1].client = "dlt_meta_int_test_" \o Version
              /\ OnboardingTasks(tasks) # {}
              /\ \A i \in OnboardingTasks(tasks) :
                     tasks[i].environment_key = envs[1].environment_key

-----------------------------------------------------------------------------
(* DLTMETARunner.create_eventhub_onboarding                                *)

\* A string of a template is a sequence of pieces: a replacement field
\* "{name}" or literal text.
IsField(piece) == Len(piece) >= 2 /\ SubSeq(piece, 1, 1) = "{"
FieldName(piece) == SubSeq(piece, 2, Len(piece) - 1)

\* name in source_value: the name occurs somewhere in the text.
Contains(value, name) ==
    \E i \in DOMAIN value :
        \E k \in 1..(Len(value[i]) - Len(name) + 1) :
            SubSeq(value[i], k, k + Len(name) - 1) = name

\* source_value.format(name=val): every replacement field of the text is
\* looked up among the keywords; the first one that is not name raises
\* KeyError.
Format(value, name, val) ==
    LET others == {i \in DOMAIN value : IsField(value[i]) /\ FieldName(value[i]) # name}
    IN IF others # {}
       THEN Raise("KeyError", {FieldName(value[CHOOSE i \in others : \A j \in others : i <= j])})
       ELSE Ok([i \in DOMAIN value |-> IF IsField(value[i]) THEN val ELSE value[i]])

\* The arguments create_eventhub_onboarding reads and lower-cases, in the
\* order of lines 593-599.
EventhubArgsRead ==
    <<"eventhub_name", "eventhub_name_append_flow", "eventhub_consumer_accesskey_name",
      "eventhub_accesskey_secret_name", "eventhub_secrets_scope_name",
      "eventhub_namespace", "eventhub_port">>

Check(name, of, key) == [name |-> name, of |-> of, key |-> key]

\* The ifs over a source_details value: the name looked for (and passed as
\* the keyword of format) and where its value comes from.  The block of a
\* flow record looks for eventhub_name, the block of an append flow for
\* eventhub_name_append_flow.
SourceDetailsChecks(block) ==
    << Check("dbfs_path", "runner_conf", "dbfs_tmp_path"),
       Check("uc_volume_path", "runner_conf", "uc_volume_path"),
       IF block = "bronze_append_flows"
       THEN Check("eventhub_name_append_flow", "args", "eventhub_name_append_flow")
       ELSE Check("eventhub_name", "args", "eventhub_name"),
       Check("eventhub_accesskey_name", "args", "eventhub_consumer_accesskey_name"),
       Check("eventhub_secrets_scope_name", "args", "eventhub_secrets_scope_name"),
       Check("eventhub_accesskey_secret_name", "args", "eventhub_accesskey_secret_name"),
       Check("eventhub_nmspace", "args", "eventhub_namespace"),
       Check("eventhub_port", "args", "eventhub_port") >>

\* The ifs from the i-th on: each one that finds its name formats the value
\* of the template and stores the outcome over the one before.
RECURSIVE SubstituteFrom(_, _, _, _, _, _)
SubstituteFrom(source_value, checks, i, out, runner_conf, lowered) ==
    IF i > Len(checks) THEN Ok(out)
    ELSE IF ~Contains(source_value, checks[i].name)
    THEN SubstituteFrom(source_value, checks, i + 1, out, runner_conf, lowered)
    ELSE IF checks[i].of = "runner_conf" /\ checks[i].key \notin DOMAIN runner_conf
    THEN Raise("AttributeError", {checks[i].key})
    ELSE LET val == IF checks[i].of = "runner_conf" THEN runner_conf[checks[i].key]
                    ELSE lowered[checks[i].key]
             formatted == Format(source_value, checks[i].name, val)
         IN IF formatted.status = "error" THEN formatted
            ELSE SubstituteFrom(source_value, checks, i + 1, formatted.value,
                                runner_conf, lowered)

\* create_eventhub_onboarding on a template of one flow record with one
\* source_details value and one append flow with one source_details value:
\* open of the path eventhub_template holds, the reads of the arguments,
\* the substitutions, the generated record.
create_eventhub_onboarding(runner_conf, cl_args, files, template) ==
    LET unset == {i \in DOMAIN EventhubArgsRead : cl_args[EventhubArgsRead[i]] = None}
        lowered == [a \in DOMAIN cl_args |-> Lower(cl_args[a])]
        top == SubstituteFrom(template.source_details, SourceDetailsChecks("source_details"),
                              1, template.source_details, runner_conf, lowered)
        flow == SubstituteFrom(template.bronze_append_flows,
                               SourceDetailsChecks("bronze_append_flows"),
                               1, template.bronze_append_flows, runner_conf, lowered)
    IN IF runner_conf.eventhub_template \notin files
       THEN Raise("FileNotFoundError", {runner_conf.eventhub_template})
       ELSE IF unset # {}
       THEN Raise("AttributeError",
                  {EventhubArgsRead[CHOOSE i \in unset : \A j \in unset : i <= j]})
       ELSE IF top.status = "error" THEN top
       ELSE IF flow.status = "error" THEN flow
       ELSE Ok([source_details |-> top.value, bronze_append_flows |-> flow.value])

CreateEventhubOnboarding(runner_conf, cl_args, files, template) ==
    /\ op = "none" /\ pc = "call"
    /\ op' = "create_eventhub_onboarding"
    /\ pc' = "done"
    /\ args' = [runner_conf |-> runner_conf, args |-> cl_args, files |-> files,
                template |-> template]
    /\ LET out == create_eventhub_onboarding(runner_conf, cl_args, files, template)
       IN /\ result' = out
          /\ localFiles' =
                 IF out.status = "error" THEN localFiles
                 ELSE [k \in {<<"/checkout_a", runner_conf.onboarding_file_path>>} |->
                          out.value]
    /\ UNCHANGED <<conf, table, secretCalls, runner, platform, written>>

\* The source_details values of the templates of the model.
EventhubValues ==
    { <<"Endpoint=sb://demo">>,
      <<"{eventhub_name}">>,
      <<"{eventhub_name_append_flow}">>,
      <<"{eventhub_accesskey_secret_name}">>,
      <<"{eventhub_nmspace}", ":", "{eventhub_port}">>,
      <<"{uc_volume_path}", "/integration_tests/resources/data/iot">>,
      <<"{dbfs_path}", "/integration_tests/resources/data/iot">> }

EventhubTemplates ==
    [source_details : EventhubValues, bronze_append_flows : EventhubValues]

\* The runner_confs of event-hub runs once the volume path is set.
EventhubConfs ==
    { [c EXCEPT !.uc_volume_path =
           "/Volumes/" \o c.uc_catalog_name \o "/" \o c.dlt_meta_schema \o "/"
               \o c.uc_volume_name \o "/"] :
        c \in {init_runner_conf(r, Username, Catalog, "eventhub") : r \in RunIds} }

\* What process_arguments returns for the command lines it accepts with
\* --source eventhub.
AcceptedEventhubArgs ==
    {o.value : o \in {a \in {process_arguments(supplied, "eventhub") :
                                 supplied \in SUBSET ArgNames} : a.status = "ok"}}

\* The files of the working directory: those of the checkout, and perhaps
\* one of the name that eventhub_template holds.
WorkingDirectories ==
    {TemplateFiles, TemplateFiles \cup {"('integration_tests/conf/eventhub-onboarding.template',)"}}

NextEventhub ==
    /\ pc = "call"
    /\ \E runner_conf \in EventhubConfs, cl_args \in AcceptedEventhubArgs,
          files \in WorkingDirectories, template \in EventhubTemplates :
           CreateEventhubOnboarding(runner_conf, cl_args, files, template)

SpecEventhub == InitCall /\ [][NextEventhub]_vars

EventhubDone == op = "create_eventhub_onboarding" /\ pc = "done"

\* The template was opened and every argument the generation reads was
\* given on the command line.
EventhubInputsGiven ==
    /\ args.runner_conf.eventhub_template \in args.files
    /\ \A i \in DOMAIN EventhubArgsRead : args.args[EventhubArgsRead[i]] # None

\* The run's value of a named placeholder.
EventhubRunValue(name) ==
    CASE name = "uc_volume_path" -> args.runner_conf.uc_volume_path
      [] name = "eventhub_nmspace" -> Lower(args.args["eventhub_namespace"])
      [] name = "eventhub_accesskey_name" -> Lower(args.args["eventhub_consumer_accesskey_name"])
      [] name \in {EventhubArgsRead[i] : i \in DOMAIN EventhubArgsRead} -> Lower(args.args[name])
      [] OTHER -> None

\* A value of the template with every placeholder replaced by the run's value.
EventhubExpected(value) ==
    [i \in DOMAIN value |->
        IF IsField(value[i]) THEN EventhubRunValue(FieldName(value[i])) ELSE value[i]]

\* C24: for every string value of a flow record's source_details block and
\* of an append flow's source_details block, event-hub generation completes
\* and the generated value has every named placeholder replaced by the
\* run's value, whatever placeholders the value holds; a value without a
\* placeholder is unchanged.
C24_EventhubPlaceholdersReplaced ==
    (EventhubDone /\ EventhubInputsGiven) =>
        /\ result.status = "ok"
        /\ result.value.source_details = EventhubExpected(args.template.source_details)
        /\ result.value.bronze_append_flows =
               EventhubExpected(args.template.bronze_append_flows)

\* C28: every argument set process_arguments accepts for source eventhub
\* suffices for the generation: create_eventhub_onboarding never fails on an
\* argument it reads that the command line did not give.
C28_AcceptedArgsSuffice ==
    EventhubDone =>
        ~(/\ result.status = "error"
          /\ result.kind = "AttributeError"
          /\ \E i \in DOMAIN EventhubArgsRead :
                 /\ result.names = {EventhubArgsRead[i]}
                 /\ args.args[EventhubArgsRead[i]] = None)

\* C25: whenever validation succeeds inside get_bronze_dataflow_spec (resp.
\* get_silver_dataflow_spec), the keys the retrieval then reads for that
\* operation's layer are set: '<layer_arg>.dataflowspecTable' and one of
\* '<layer_arg>.group' and '<layer_arg>.dataflowIds', whatever the value of
\* the key 'layer'.
C25_ValidatedKeysAreReadKeys ==
    (CheckConfDone /\ result.status = "ok") =>
        /\ TableKey(args.layer_arg) \in DOMAIN conf
        /\ \/ GroupKey(args.layer_arg) \in DOMAIN conf
           \/ IdsKey(args.layer_arg) \in DOMAIN conf

\* C26: when both a group and a dataFlowId list are requested, only the
\* group filter is applied: the result is a latest-version selection of all
\* the rows of the group, as with the same group and no id list, so the flows
\* of the group whose dataFlowId is outside the id list are returned too.
C26_GroupWinsOverIds ==
    (GetDataflowSpecReturned /\ Truthy(RequestedGroup) /\ Truthy(RequestedIds)) =>
        /\ result.value \in
               LatestVersionRows({r \in table : r.dataFlowGroup = RequestedGroup})
        /\ \A t \in table :
               (t.dataFlowGroup = RequestedGroup /\ t.dataFlowId \notin IdsIn(RequestedIds))
                   => \E x \in result.value : SameFlow(x, t)

\* C26 witness: group and id list are both requested and the result holds a
\* row of the group whose dataFlowId is not in the id list.
C26_Witness ==
    /\ GetDataflowSpecReturned
    /\ Truthy(RequestedGroup) /\ Truthy(RequestedIds)
    /\ \E t \in result.value :
           t.dataFlowGroup = RequestedGroup /\ t.dataFlowId \notin IdsIn(RequestedIds)

\* C27: for every input list the result of get_partition_cols is either
\* absent or a non-empty list none of whose entries is empty or
\* whitespace-only.
C27_AbsentOrNonBlankCols ==
    (op = "get_partition_cols" /\ pc = "done") =>
        \/ result.value = NoCols
        \/ /\ ~result.value.absent
           /\ result.value.cols # <<>>
           /\ \A i \in DOMAIN result.value.cols : ~Blank(result.value.cols[i])

\* C29: when create_bronze_silver_dlt has succeeded for a file-drop run (its
\* three pipeline handles are set) and clean_up has then run to its end,
\* none of the three pipelines (bronze A1, bronze A2, silver) is left on the
\* platform.
C29_EveryPipelineDeleted ==
    (/\ CleanUpDone
     /\ args.runner_conf.source = "cloudfiles"
     /\ Truthy(args.runner_conf.bronze_pipeline_id)
     /\ Truthy(args.runner_conf.bronze_pipeline_A2_id)
     /\ Truthy(args.runner_conf.silver_pipeline_id)) =>
        \A id \in {args.runner_conf.bronze_pipeline_id,
                   args.runner_conf.bronze_pipeline_A2_id,
                   args.runner_conf.silver_pipeline_id} :
            Resource("pipeline", id) \notin platform

====
